---- MODULE Spec2Model ----
(***************************************************************************)
(* A model of the signal engine of the telecommunications laboratory and   *)
(* of the HTTP handlers that drive it:                                     *)
(*   flask_telecom_server.py   (one shared WebTelecomLab object)           *)
(*   enhanced_app_v2.py        (stateless /generate_signals route)         *)
(*   flask_app_with_tooltips.py (stateless /generate_signals route)        *)
(*   enhanced_app.py           (symbol mappers, theoretical BER curves)    *)
(*   app.py                    (the BPSK chain of TelecomLabAutomation)    *)
(*   advanced_tooltip_api.py   (search, related and custom acronym routes) *)
(*   tooltip_manager.py        (import_acronyms)                           *)
(*   fix_topology_animations.py (the script tag put into index.html)       *)
(*                                                                         *)
(* Floating point values are kept symbolically: a noise level is a decimal *)
(* float [m, e] standing for m * 10^e, a waveform is the pair of baseband  *)
(* symbol sequences with its sample count, a noise realization is the      *)
(* generator state it was drawn from with its scale and length, a BER      *)
(* value is its level -1000 * log10(value).                                *)
(*                                                                         *)
(* Spec      the processes serving one request (or script call) at a time  *)
(* SpecConc  two requests of one server process served on two threads      *)
(* SpecMapper the QPSK and 16-QAM symbol mappers on every short bit string *)
(* SpecCustom the custom_acronyms table under POST requests and imports    *)
(* SpecLookup the acronym lookup, related and search routes                *)
(* SpecFix   repeated runs of fix_topology_animations.py                   *)
(***************************************************************************)
EXTENDS Integers, Sequences, FiniteSets, TLC

VARIABLES
    app,        \* which process this is: "server", "v2", "tooltips", or one of
                \* the scripts "enhanced_app", "app"
    lab,        \* flask_telecom_server: the global telecom_lab object
    rng,        \* the process-wide numpy generator: [seed, pos]
    lastOp,     \* the route that answered last
    lastReq,    \* the request it answered
    resp,       \* the response it gave
    run,        \* the locals of the last signal generation (symbols, waveform, noise)
    repeated,   \* the last request repeats the one before it
    before,     \* the outcome of the request before, kept when repeated
    tlab,       \* app.py: the TelecomLabAutomation object
    perf,       \* the BER curves the last operation computed and plotted
    thr,        \* concurrent request handling: the position and locals of each thread
    mbits,      \* symbol mapper under test: the bit sequence
    msyms,      \* symbol mapper under test: the constellation points produced
    mwhich,     \* symbol mapper under test: which mapper produced msyms
    custom,     \* tooltip_analytics.db: the rows of custom_acronyms, in id order
    cresp,      \* the outcome of the last operation on custom_acronyms
    searchLog,  \* tooltip_analytics.db: the queries stored in search_queries
    tresp,      \* the last answer of an acronym lookup, related or search route
    files,      \* the files fix_topology_animations.py works on: index.html and
                \* whether it and topology_animations.js exist
    fix         \* fix_topology_animations: what its runs returned and wrote

vars == <<app, lab, rng, lastOp, lastReq, resp, run, repeated, before, tlab, perf, thr,
          mbits, msyms, mwhich, custom, cresp, searchLog, tresp, files, fix>>

webVars == <<app, lab, rng, lastOp, lastReq, resp, run, repeated, before>>
mapVars == <<mbits, msyms, mwhich>>
labVars == <<tlab, perf>>
toolVars == <<custom, cresp, searchLog, tresp, files, fix>>

----------------------------------------------------------------------------
(* Bounds of the model *)

\* largest num_bits a request carries explicitly
MaxNumBits == 2
\* longest bit sequence handed to the symbol mappers under test
MaxMapBits == 8

----------------------------------------------------------------------------
(* Values *)

IntV(n) == [t |-> "int", v |-> n]
StrV(s) == [t |-> "str", v |-> s]
FloatV(x) == [t |-> "float", v |-> x]
AbsentNum == [t |-> "absent", v |-> 0]
AbsentStr == [t |-> "absent", v |-> ""]

\* decimal floats m * 10^e
Dec(m, e) == [m |-> m, e |-> e]
Zero == Dec(0, 0)
Tenth == Dec(1, -1)
Tiny == Dec(1, -200)
AbsentFloat == [t |-> "absent", v |-> Zero]

\* Python truthiness of a request value (if N:, if modulation:, if noise_level:)
Truthy(x) ==
    CASE x.t = "int" -> x.v # 0
      [] x.t = "str" -> x.v # ""
      [] x.t = "float" -> x.v.m # 0
      [] OTHER -> FALSE

\* the square of a double underflows to exactly 0.0 (smallest subnormal is about 4.9e-324)
SquareIsZero(x) == x.m = 0 \/ 2 * x.e < -323

Min(a, b) == IF a <= b THEN a ELSE b

CeilDiv(n, k) == (n + k - 1) \div k

----------------------------------------------------------------------------
(* The process-wide numpy generator *)

\* the literal every call site seeds with
SEED == 42

\* seeds the generator may hold at process start (numpy seeds itself from OS entropy)
EntropySeeds == {1, 2}

\* a call site that forgets to seed: the generator is left where it was
SeedRngSkipped(g) == g

\* np.random.seed(42)
SeedRng(g) == [seed |-> SEED, pos |-> 0]

\* the i-th draw of the stream of a seed: a fixed function of (seed, i),
\* standing for the Mersenne Twister output reduced to one bit
RandBit(seed, i) ==
    LET h == (seed * 7919 + i * 10007) % 46337
    IN  (((h * h) % 46337) \div 64) % 2

\* np.random.randint(0, 2, n): the next n bits of the stream
RandInt(g, n) == [i \in 1..n |-> RandBit(g.seed, g.pos + i)]

\* the generator after n draws
Advance(g, n) == [g EXCEPT !.pos = @ + n]

\* scale * np.random.randn(n): the realization is fixed by the generator state
\* it starts from, its length and its scale
Randn(g, scale, n) == [scale |-> scale, seed |-> g.seed, from |-> g.pos, len |-> n]

NoNoise == [scale |-> Zero, seed |-> 0, from |-> 0, len |-> 0]

\* np.var(noise) == 0.0: fewer than two samples, or every squared deviation underflows
VarIsZero(noise) == noise.len = 1 \/ (noise.len > 1 /\ SquareIsZero(noise.scale))

\* np.mean(noise**2) > 0 (nan for an empty array, which compares False)
MeanSquarePositive(noise) == noise.len > 0 /\ ~SquareIsZero(noise.scale)

----------------------------------------------------------------------------
(* Symbol mapping and waveforms *)

Zeros(n) == [i \in 1..n |-> 0]

\* a pad that puts the zeros in front of the bits
PadLeft(bits, n) == Zeros(n) \o bits

\* np.pad(bits, (0, n), 'constant')
PadRight(bits, n) == bits \o Zeros(n)

\* 2 * bits - 1
Antipodal(bits) == [i \in 1..Len(bits) |-> 2 * bits[i] - 1]

\* a waveform: the I and Q symbol sequences it repeats sps times, cut to len samples
Wave(i, q, len) == [i |-> i, q |-> q, len |-> len]
NoWave == Wave(<<>>, <<>>, 0)

\* flask_telecom_server: number of zeros appended before pairing (len(bits) % 2)
QpskPad(n) == n % 2

\* flask_telecom_server: number of zeros appended before grouping by 4
Qam16Pad(n) == (4 - (n % 4)) % 4

\* an arithmetic mapping that takes both coordinates from val % 4
Arith16_one_residue(b) ==
    LET val == b[1] * 8 + b[2] * 4 + b[3] * 2 + b[4]
    IN  <<2 * (val % 4) - 3, 2 * (val % 4) - 3>>

\* flask_telecom_server 16-QAM: val = 8 b0 + 4 b1 + 2 b2 + b3,
\* I = ((val % 4) - 1.5) * 2, Q = ((val // 4) - 1.5) * 2
Arith16(b) ==
    LET val == b[1] * 8 + b[2] * 4 + b[3] * 2 + b[4]
    IN  <<2 * (val % 4) - 3, 2 * (val \div 4) - 3>>

\* enhanced_app: a table with the second and third rows of labels in binary order
gray_16qam_binary_rows(b) ==
    LET row == 2 * b[1] + b[2]
        col == CASE <<b[3], b[4]>> = <<0, 0>> -> -3
                 [] <<b[3], b[4]>> = <<0, 1>> -> -1
                 [] <<b[3], b[4]>> = <<1, 1>> -> 1
                 [] OTHER -> 3
    IN  <<2 * row - 3, col>>

\* enhanced_app: the Gray-coded 16-QAM table gray_16qam
gray_16qam(b) ==
    CASE b = <<0,0,0,0>> -> <<-3, -3>> [] b = <<0,0,0,1>> -> <<-3, -1>>
      [] b = <<0,0,1,1>> -> <<-3, 1>>  [] b = <<0,0,1,0>> -> <<-3, 3>>
      [] b = <<0,1,0,0>> -> <<-1, -3>> [] b = <<0,1,0,1>> -> <<-1, -1>>
      [] b = <<0,1,1,1>> -> <<-1, 1>>  [] b = <<0,1,1,0>> -> <<-1, 3>>
      [] b = <<1,1,0,0>> -> <<1, -3>>  [] b = <<1,1,0,1>> -> <<1, -1>>
      [] b = <<1,1,1,1>> -> <<1, 1>>   [] b = <<1,1,1,0>> -> <<1, 3>>
      [] b = <<1,0,0,0>> -> <<3, -3>>  [] b = <<1,0,0,1>> -> <<3, -1>>
      [] b = <<1,0,1,1>> -> <<3, 1>>   [] b = <<1,0,1,0>> -> <<3, 3>>

\* bits.reshape(-1, k): group g of k consecutive bits
Group(bits, k, g) == [j \in 1..k |-> bits[(g - 1) * k + j]]
NumGroups(bits, k) == Len(bits) \div k

----------------------------------------------------------------------------
(* Responses *)

NoResult == [present |-> FALSE, bits |-> <<>>, modulation |-> "", samples |-> 0,
             snr_db |-> "none"]
NoRun == [ran |-> FALSE, symbols |-> 0, sps |-> 0, modulated |-> NoWave, noise |-> NoNoise]
EmptyDF == [samples |-> 0, bits |-> <<>>, modulated |-> NoWave, noise |-> NoNoise]
NoPlot == [kind |-> "none", title |-> "", df |-> EmptyDF, points |-> {}, scale |-> ""]

\* jsonify({'success': False, 'error': str(e)}), 500
Failure500(e) == [success |-> FALSE, status |-> 500, result |-> NoResult,
                  plot |-> NoPlot, error |-> e, modulation |-> ""]

\* jsonify({'success': True, ...}) with the default status
Success200(result, plot, modulation) ==
    [success |-> TRUE, status |-> 200, result |-> result, plot |-> plot,
     error |-> "", modulation |-> modulation]

NoResponse == [success |-> FALSE, status |-> 0, result |-> NoResult, plot |-> NoPlot,
               error |-> "", modulation |-> ""]

----------------------------------------------------------------------------
(* flask_telecom_server.py: class WebTelecomLab *)

\* reset_parameters
DEFAULT_N == 100
DEFAULT_SPS == 20
\* self.fc = 2.4e9 and self.fs = 20e6, in MHz
DEFAULT_FC_MHZ == 2400
DEFAULT_FS_MHZ == 20
InitLab == [N |-> IntV(DEFAULT_N), sps |-> DEFAULT_SPS, modulation |-> "BPSK",
            noise_power |-> Tenth, signal_df |-> EmptyDF,
            fc |-> DEFAULT_FC_MHZ, fs |-> DEFAULT_FS_MHZ]

\* the branches of generate_signals that build `modulated`
ServerSchemes == {"BPSK", "QPSK", "16-QAM"}

\* generate_signals, lines 129-138: the (I, Q) point of every group of 4 padded bits
ServerQam16Symbols(bits) ==
    LET padded == PadRight(bits, Qam16Pad(Len(bits)))
    IN  [g \in 1..NumGroups(padded, 4) |-> Arith16(Group(padded, 4, g))]

\* generate_signals, lines 104-147: the modulated waveform of a supported scheme
ServerModulate(mod, bits, sps) ==
    LET n == Len(bits)
        carrierLen == n * sps
    IN  CASE mod = "BPSK" ->
               Wave(Antipodal(bits), <<>>, Min(n * sps, carrierLen))
          [] mod = "QPSK" ->
               LET padded == PadRight(bits, QpskPad(n))
                   np == NumGroups(padded, 2)
                   i == [g \in 1..np |-> 2 * Group(padded, 2, g)[1] - 1]
                   q == [g \in 1..np |-> 2 * Group(padded, 2, g)[2] - 1]
               IN  Wave(i, q, Min(np * sps, carrierLen))
          [] mod = "16-QAM" ->
               LET pts == ServerQam16Symbols(bits)
                   ng == Len(pts)
                   i == [g \in 1..ng |-> pts[g][1]]
                   q == [g \in 1..ng |-> pts[g][2]]
               IN  Wave(i, q, Min(ng * sps, carrierLen))

\* 10 * np.log10(np.var(modulated) / (np.var(noise) + 1e-10)): the denominator is
\* at least 1e-10 and the carrier is not constant, so the quotient is finite and positive
SnrServer(modulated, noise) == "finite"

\* an exception leaves generate_signals: the attributes assigned so far stay
Raised(l, g, e) == [ok |-> FALSE, lab |-> l, rng |-> g, error |-> e,
                    result |-> NoResult, run |-> NoRun]

\* WebTelecomLab.generate_signals(N, modulation, noise_level)
WebLabGenerateSignals(l, g, N, modulation, noise_level) ==
    LET l1 == [l EXCEPT !.N = IF Truthy(N) THEN N ELSE @,
                        !.modulation = IF Truthy(modulation) THEN modulation.v ELSE @,
                        !.noise_power = IF Truthy(noise_level) THEN noise_level.v ELSE @]
    IN  IF l1.N.t # "int" THEN Raised(l1, g, "TypeError")
        ELSE IF l1.N.v < 0 THEN Raised(l1, g, "ValueError")
        ELSE
          LET n == l1.N.v
              g1 == SeedRng(g)
              bits == RandInt(g1, n)
              g2 == Advance(g1, n)
          IN  IF l1.modulation \notin ServerSchemes
              THEN Raised(l1, g2, "UnboundLocalError")
              ELSE
                LET modulated == ServerModulate(l1.modulation, bits, l1.sps)
                    noise == Randn(g2, l1.noise_power, modulated.len)
                    g3 == Advance(g2, modulated.len)
                    min_samples == Min(Min(n * l1.sps, Len(bits) * l1.sps), modulated.len)
                    df == [samples |-> min_samples, bits |-> bits,
                           modulated |-> modulated, noise |-> noise]
                IN  [ok |-> TRUE, lab |-> [l1 EXCEPT !.signal_df = df], rng |-> g3,
                     error |-> "",
                     result |-> [present |-> TRUE, bits |-> bits,
                                 modulation |-> l1.modulation, samples |-> min_samples,
                                 snr_db |-> SnrServer(modulated, noise)],
                     run |-> [ran |-> TRUE, symbols |-> Len(modulated.i), sps |-> l1.sps,
                              modulated |-> modulated, noise |-> noise]]

\* WebTelecomLab.generate_signal_plot: drawn from the object's signal_df and modulation
\* (signal_df has rows after a successful generate_signals, so the regeneration
\* branch is not taken from the route)
WebLabSignalPlot(l) == [kind |-> "signal", title |-> l.modulation, df |-> l.signal_df,
                        points |-> {}, scale |-> ""]

\* the points generate_constellation_plot scatters, with the labels it writes
ServerConstellationPoints(mod) ==
    CASE mod = "BPSK" -> {<<-1, 0, "0">>, <<1, 0, "1">>}
      [] mod = "QPSK" -> {<<1, 1, "00">>, <<-1, 1, "01">>, <<-1, -1, "11">>, <<1, -1, "10">>}
      [] mod = "16-QAM" -> {<<i, q, "">> : i \in {-3, -1, 1, 3}, q \in {-3, -1, 1, 3}}
      [] OTHER -> {}

\* WebTelecomLab.generate_constellation_plot(modulation)
WebLabConstellationPlot(l, modulation) ==
    LET l1 == [l EXCEPT !.modulation = IF modulation # "" THEN modulation ELSE @]
    IN  [lab |-> l1,
         plot |-> [kind |-> "constellation", title |-> l1.modulation, df |-> EmptyDF,
                   points |-> ServerConstellationPoints(l1.modulation),
                   scale |-> IF l1.modulation = "QPSK" THEN "1/sqrt(2)" ELSE "1"]]

----------------------------------------------------------------------------
(* Requests *)

ROUTE_DEFAULT_BITS == 50

NoBody == [body |-> FALSE, num_bits |-> AbsentNum, modulation |-> AbsentStr,
           noise_level |-> AbsentFloat]

\* data.get(key, default)
GetOr(field, default) == IF field.t = "absent" THEN default ELSE field

\* flask_telecom_server: POST /generate_signals (request.json raises inside the
\* try block when the request carries no JSON body)
ServerGenerateSignalsRoute(l, g, req) ==
    IF ~req.body
    THEN [lab |-> l, rng |-> g, resp |-> Failure500("BadRequest"), run |-> NoRun]
    ELSE
      LET N == GetOr(req.num_bits, IntV(ROUTE_DEFAULT_BITS))
          modulation == GetOr(req.modulation, StrV("BPSK"))
          noise_level == GetOr(req.noise_level, FloatV(Tenth))
          out == WebLabGenerateSignals(l, g, N, modulation, noise_level)
      IN  IF out.ok
          THEN [lab |-> out.lab, rng |-> out.rng, run |-> out.run,
                resp |-> Success200(out.result, WebLabSignalPlot(out.lab), "")]
          ELSE [lab |-> out.lab, rng |-> out.rng, run |-> out.run,
                resp |-> Failure500(out.error)]

\* flask_telecom_server: GET /constellation/<modulation>
ServerConstellationRoute(l, modulation) ==
    LET out == WebLabConstellationPlot(l, modulation)
    IN  [lab |-> out.lab, resp |-> Success200(NoResult, out.plot, modulation)]

----------------------------------------------------------------------------
(* enhanced_app_v2.py and flask_app_with_tooltips.py: the stateless routes *)

SAMPLES_PER_SYMBOL == 10

StatelessSchemes == {"BPSK", "QPSK", "16-QAM"}

\* the handler's except branch: the generator stays where the handler left it
RouteFailed(g, e) == [rng |-> g, resp |-> Failure500(e), run |-> NoRun]

\* snr_db = 10 * np.log10(signal_power / noise_power) if noise_power > 0 else float('inf')
SnrStateless(noise) == IF MeanSquarePositive(noise) THEN "finite" ELSE "inf"

\* enhanced_app_v2: POST /generate_signals (every branch maps bit by bit: 2 * bits - 1)
StatelessGenerateSignals(g, req) ==
    IF ~req.body THEN RouteFailed(g, "BadRequest")
    ELSE
      LET num_bits == GetOr(req.num_bits, IntV(ROUTE_DEFAULT_BITS))
          modulation == GetOr(req.modulation, StrV("BPSK")).v
          noise_level == GetOr(req.noise_level, FloatV(Tenth)).v
          g1 == SeedRng(g)
      IN  IF num_bits.t # "int" THEN RouteFailed(g1, "TypeError")
          ELSE IF num_bits.v < 0 THEN RouteFailed(g1, "ValueError")
          ELSE
            LET n == num_bits.v
                bits == RandInt(g1, n)
                g2 == Advance(g1, n)
            IN  IF modulation \notin StatelessSchemes
                THEN RouteFailed(g2, "UnboundLocalError")
                ELSE
                  LET symbols == Antipodal(bits)
                      signal == Wave(symbols, <<>>, Len(symbols) * SAMPLES_PER_SYMBOL)
                      noise == Randn(g2, noise_level, signal.len)
                      g3 == Advance(g2, signal.len)
                      df == [samples |-> signal.len, bits |-> bits,
                             modulated |-> signal, noise |-> noise]
                      plot == [kind |-> "signal", title |-> modulation, df |-> df,
                               points |-> {}, scale |-> ""]
                  IN  [rng |-> g3,
                       resp |-> Success200(
                                  [present |-> TRUE, bits |-> bits,
                                   modulation |-> modulation, samples |-> signal.len,
                                   snr_db |-> SnrStateless(noise)], plot, ""),
                       run |-> [ran |-> TRUE, symbols |-> Len(symbols),
                                sps |-> SAMPLES_PER_SYMBOL,
                                modulated |-> signal, noise |-> noise]]

\* flask_app_with_tooltips: POST /generate_signals (the same statements, line for line)
TooltipsGenerateSignalsRoute(g, req) == StatelessGenerateSignals(g, req)

\* enhanced_app_v2: GET /constellation/<modulation>
V2ConstellationRoute(modulation) ==
    LET pts == CASE modulation = "BPSK" -> {<<-1, 0, "">>, <<1, 0, "">>}
                 [] modulation = "QPSK" ->
                      {<<1, 1, "">>, <<-1, 1, "">>, <<-1, -1, "">>, <<1, -1, "">>}
                 [] modulation = "16-QAM" ->
                      {<<i, q, "">> : i \in {-3, -1, 1, 3}, q \in {-3, -1, 1, 3}}
                 [] OTHER -> {}
        scale == CASE modulation = "QPSK" -> "1/sqrt(2)"
                   [] modulation = "16-QAM" -> "1/sqrt(10)"
                   [] OTHER -> "1"
    IN  Success200(NoResult,
                   [kind |-> "constellation",
                    title |-> IF pts = {} THEN "" ELSE modulation,
                    df |-> EmptyDF, points |-> pts, scale |-> scale],
                   modulation)

\* flask_app_with_tooltips: GET /constellation/<modulation>
TooltipsConstellationRoute(modulation) ==
    LET pts == CASE modulation = "BPSK" -> {<<-1, 0, "">>, <<1, 0, "">>}
                 [] modulation = "QPSK" ->
                      {<<1, 1, "">>, <<-1, 1, "">>, <<-1, -1, "">>, <<1, -1, "">>}
                 [] modulation = "16-QAM" ->
                      {<<i, q, "">> : i \in {-3, -1, 1, 3}, q \in {-3, -1, 1, 3}}
                 [] OTHER -> {}
    IN  Success200(NoResult,
                   [kind |-> "constellation", title |-> modulation, df |-> EmptyDF,
                    points |-> pts,
                    scale |-> IF modulation = "QPSK" THEN "1/sqrt(2)" ELSE "1"],
                   modulation)

----------------------------------------------------------------------------
(* enhanced_app.py: generate_advanced_modulation_signals *)

\* lines 241-253: pad to a multiple of 4, group, look each group up in gray_16qam
EnhancedQam16Symbols(bits) ==
    LET padded == PadRight(bits, (4 - (Len(bits) % 4)) % 4)
    IN  [g \in 1..NumGroups(padded, 4) |-> gray_16qam(Group(padded, 4, g))]

\* lines 223-227: pad with len(bits) % 2 zeros, pair, I from column 0 and Q from
\* column 1, each 2 * bit - 1
EnhancedQpskSymbols(bits) ==
    LET padded == PadRight(bits, Len(bits) % 2)
    IN  [g \in 1..NumGroups(padded, 2) |->
            <<2 * Group(padded, 2, g)[1] - 1, 2 * Group(padded, 2, g)[2] - 1>>]

\* flask_telecom_server, generate_signals lines 112-116: the same statements
ServerQpskSymbols(bits) ==
    LET padded == PadRight(bits, QpskPad(Len(bits)))
    IN  [g \in 1..NumGroups(padded, 2) |->
            <<2 * Group(padded, 2, g)[1] - 1, 2 * Group(padded, 2, g)[2] - 1>>]

----------------------------------------------------------------------------
(* Theoretical BER curves *)

\* A BER value b > 0 is kept as its level -1000 * log10(b), in thousandths of a
\* decade; a double below the smallest subnormal (about 4.9e-324, level 323306)
\* is 0.0.
BerV(l) == [zero |-> FALSE, level |-> l]
BerZero == [zero |-> TRUE, level |-> 0]
Rounded(l) == IF l > 323306 THEN BerZero ELSE BerV(l)

\* a <= b as numbers
BerLeq(a, b) == a.zero \/ (~b.zero /\ a.level >= b.level)

\* np.linspace(0, stop, num): point k (counted from 0) is k * stop / (num - 1) dB
Linspace(stop, num) == [stop |-> stop, num |-> num]

\* the SNR of grid point k in thousandths of a dB
SnrDbMilli(grid, k) == (1000 * k * grid.stop) \div (grid.num - 1)

\* the SNR of grid point k in half dB (every grid that is raised to a power of
\* ten has a step of 1 dB or 0.5 dB)
HalfDb(grid, k) == (2 * k * grid.stop) \div (grid.num - 1)

RECURSIVE TenTo(_)
TenTo(n) == IF n = 0 THEN 1 ELSE 10 * TenTo(n - 1)

\* 10 ** (i / 20) in thousandths, i = 0..19
Pow10Table ==
    <<1000, 1122, 1259, 1413, 1585, 1778, 1995, 2239, 2512, 2818,
      3162, 3548, 3981, 4467, 5012, 5623, 6310, 7079, 7943, 8913>>

\* snr_linear = 10 ** (snr_db / 10) in thousandths, for snr_db = h / 2
SnrLinearMilli(h) == Pow10Table[(h % 20) + 1] * TenTo(h \div 20)

\* 1000 * log10(n), to the leading digit of n
RECURSIVE Log10Milli(_)
Log10Milli(n) ==
    IF n >= 10 THEN 1000 + Log10Milli(n \div 10)
    ELSE <<0, 301, 477, 602, 699, 778, 845, 903, 954>>[n]

\* an exponential with the sign of the exponent lost: np.exp(+a)
ExpLevelGrowing(a) == 0 - (((a \div 10) * 4343) \div 1000)

\* the level of np.exp(-a), a in thousandths: a * log10(e)
ExpLevel(a) == ((a \div 10) * 4343) \div 1000

\* the level of erfc(sqrt(a)), a in thousandths, from erfc(y) ~ exp(-y^2) / (y sqrt(pi));
\* scipy.special.erfc and the polynomial fallback of flask_telecom_server agree to
\* 1.2e-7 relative, far below a thousandth of a decade
\* (erfc never exceeds 1 for a >= 0, so the level is not negative)
ErfcSqrtLevel(a) ==
    LET l == ((a \div 10) * 4343) \div 1000
             + (Log10Milli(((a \div 10) * 3142) \div 100) - 3000) \div 2
    IN  IF l < 0 THEN 0 ELSE l

\* the level of the leading coefficient
CoefLevel(c) ==
    CASE c = <<1, 2>> -> 301 [] c = <<3, 8>> -> 426 [] c = <<3, 4>> -> 125
      [] c = <<7, 12>> -> 234

\* coef * erfc(np.sqrt(factor * snr_linear))
ErfcForm(coef, factor) == [coef |-> coef, fn |-> "erfc", factor |-> factor, of |-> "snr_linear"]

\* coef * np.exp(-factor * x), x the linear SNR or the SNR in dB
ExpForm(coef, factor, of) == [coef |-> coef, fn |-> "exp", factor |-> factor, of |-> of]

\* the value of a BER expression at grid point k
BerAt(f, grid, k) ==
    LET x == IF f.of = "snr_linear" THEN SnrLinearMilli(HalfDb(grid, k))
             ELSE SnrDbMilli(grid, k)
        a == (x * f.factor[1]) \div f.factor[2]
        fl == IF f.fn = "exp" THEN ExpLevel(a) ELSE ErfcSqrtLevel(a)
    IN  IF Rounded(fl).zero THEN BerZero ELSE Rounded(CoefLevel(f.coef) + fl)

\* the array a BER expression gives over the grid
BerCurve(f, grid) == [k \in 1..grid.num |-> BerAt(f, grid, k - 1)]

\* the floor 1e-12 of np.maximum(ber, 1e-12), as a level
BER_FLOOR_LEVEL == 12000

\* no clamp: the array goes to the plot as it is
Unclamped(ber) == ber

\* np.maximum(ber, 1e-12)
Clamped(ber) ==
    [k \in 1..Len(ber) |-> IF BerLeq(ber[k], BerV(BER_FLOOR_LEVEL))
                           THEN BerV(BER_FLOOR_LEVEL) ELSE ber[k]]

\* one curve: the scheme, its expression, the array computed and the array handed
\* to the logarithmic plot (empty when none is plotted)
PerfCurve(scheme, f, grid, plotted) ==
    [scheme |-> scheme, formula |-> f, grid |-> grid, ber |-> BerCurve(f, grid),
     plotted |-> plotted]

NoPerf == [impl |-> "none", raised |-> FALSE, curves |-> {}]

\* flask_telecom_server: WebTelecomLab.generate_performance_plot
ServerPerformancePlot ==
    LET snr_range == Linspace(25, 26)
        ber_bpsk == ErfcForm(<<1, 2>>, <<1, 1>>)
        ber_qpsk == ErfcForm(<<1, 2>>, <<1, 1>>)
        ber_16qam == ErfcForm(<<3, 8>>, <<4, 5>>)
    IN  [impl |-> "flask_telecom_server", raised |-> FALSE,
         curves |-> {PerfCurve("BPSK", ber_bpsk, snr_range,
                               Clamped(BerCurve(ber_bpsk, snr_range))),
                     PerfCurve("QPSK", ber_qpsk, snr_range,
                               Clamped(BerCurve(ber_qpsk, snr_range))),
                     PerfCurve("16-QAM", ber_16qam, snr_range,
                               Clamped(BerCurve(ber_16qam, snr_range)))}]

\* enhanced_app_v2: performance_analysis
V2PerformancePlot ==
    LET snr_db == Linspace(20, 21)
        ber_bpsk == ExpForm(<<1, 2>>, <<1, 1>>, "snr_linear")
        ber_qpsk == ExpForm(<<1, 2>>, <<1, 1>>, "snr_linear")
        ber_16qam == ExpForm(<<3, 8>>, <<2, 5>>, "snr_linear")
    IN  [impl |-> "enhanced_app_v2", raised |-> FALSE,
         curves |-> {PerfCurve("BPSK", ber_bpsk, snr_db,
                               Unclamped(BerCurve(ber_bpsk, snr_db))),
                     PerfCurve("QPSK", ber_qpsk, snr_db,
                               Unclamped(BerCurve(ber_qpsk, snr_db))),
                     PerfCurve("16-QAM", ber_16qam, snr_db,
                               Unclamped(BerCurve(ber_16qam, snr_db)))}]

\* flask_app_with_tooltips: performance_analysis
TooltipsPerformancePlot ==
    LET snr_db == Linspace(15, 31)
        ber_bpsk == ExpForm(<<1, 2>>, <<1, 2>>, "snr_linear")
        ber_qpsk == ExpForm(<<1, 2>>, <<1, 2>>, "snr_linear")
        ber_16qam == ExpForm(<<3, 4>>, <<1, 10>>, "snr_linear")
    IN  [impl |-> "flask_app_with_tooltips", raised |-> FALSE,
         curves |-> {PerfCurve("BPSK", ber_bpsk, snr_db,
                               Unclamped(BerCurve(ber_bpsk, snr_db))),
                     PerfCurve("QPSK", ber_qpsk, snr_db,
                               Unclamped(BerCurve(ber_qpsk, snr_db))),
                     PerfCurve("16-QAM", ber_16qam, snr_db,
                               Unclamped(BerCurve(ber_16qam, snr_db)))}]

\* enhanced_app: calculate_enhanced_performance_metrics, as far as the file goes
\* (it ends inside the function, before anything is plotted). The BER lines call
\* np.erfc: where the numpy namespace has no erfc, line 468 raises AttributeError.
EnhancedPerformanceMetrics(np_has_erfc) ==
    LET snr_range == Linspace(30, 31)
        ber_bpsk == ErfcForm(<<1, 2>>, <<1, 1>>)
        ber_qpsk == ErfcForm(<<1, 2>>, <<1, 1>>)
        ber_16qam == ErfcForm(<<3, 4>>, <<4, 5>>)
        ber_64qam == ErfcForm(<<7, 12>>, <<1, 42>>)
    IN  IF ~np_has_erfc
        THEN [impl |-> "enhanced_app", raised |-> TRUE, curves |-> {}]
        ELSE [impl |-> "enhanced_app", raised |-> FALSE,
              curves |-> {PerfCurve("BPSK", ber_bpsk, snr_range, <<>>),
                          PerfCurve("QPSK", ber_qpsk, snr_range, <<>>),
                          PerfCurve("16-QAM", ber_16qam, snr_range, <<>>),
                          PerfCurve("64-QAM", ber_64qam, snr_range, <<>>)}]

\* app.py: TelecomLabAutomation.generate_performance_analysis (the BER panel)
AppPerformancePlot ==
    LET snr_db == Linspace(15, 50)
        ber_theoretical == ExpForm(<<1, 2>>, <<1, 2>>, "snr_db")
    IN  [impl |-> "app", raised |-> FALSE,
         curves |-> {PerfCurve("theoretical", ber_theoretical, snr_db,
                               Unclamped(BerCurve(ber_theoretical, snr_db)))}]

----------------------------------------------------------------------------
(* app.py: class TelecomLabAutomation *)

\* setup_parameters
LAB_N == 20
LAB_SPS == 10
LAB_FC == 2

\* how many times generate_signal_data is followed on one object
MaxLabRuns == 2

\* cos(2 pi j / 10) in thousandths, j = 0..9
CosTenthTurn == <<1000, 809, 309, -309, -809, -1000, -809, -309, 309, 809>>

\* a carrier that passes through zero: cos(2 pi k / 4)
CarrierThroughZero(fc, sps, k) == <<1000, 0, -1000, 0>>[(k % 4) + 1]

\* self.carrier[k] = np.cos(2 * np.pi * self.fc * self.t[k]) with t[k] = k / sps
\* (k counted from 0), in thousandths
CarrierMilli(fc, sps, k) == CosTenthTurn[(((fc * k * 10) \div sps) % 10) + 1]

\* the object after __init__ (t = np.arange(0, N, 1 / sps) has N * sps points)
InitTLab == [N |-> LAB_N, sps |-> LAB_SPS, fc |-> LAB_FC, tlen |-> LAB_N * LAB_SPS,
             noise_power |-> Dec(3, -1), runs |-> 0,
             bits |-> <<>>, symbols |-> <<>>, noise |-> NoNoise, demod |-> <<>>]

\* one sample of self.demod = (self.tx + noise) * self.carrier with
\* self.tx = self.baseband * self.carrier: the signal part symbol * c * c (in
\* millionths) and the scale of the noise part
DemodSample(symbol, c, scale) == [signal |-> symbol * c * c, noise_scale |-> scale]

\* the sign of a demodulated sample: that of the signal part when the noise part
\* is 0.0, open otherwise (it depends on the draw)
Sgn(x) == IF x > 0 THEN 1 ELSE IF x < 0 THEN -1 ELSE 0
DemodSign(d) == IF d.noise_scale.m = 0 THEN {Sgn(d.signal)} ELSE {-1, 0, 1}

\* TelecomLabAutomation.generate_signal_data (no seeding: the generator goes on
\* from where it is)
AppGenerateSignalData(l, g) ==
    LET bits == RandInt(g, l.N)
        g1 == Advance(g, l.N)
        symbols == Antipodal(bits)
        len == Len(symbols) * l.sps
        noise == Randn(g1, l.noise_power, len)
        g2 == Advance(g1, len)
        demod == [k \in 1..len |->
                     DemodSample(symbols[((k - 1) \div l.sps) + 1],
                                 CarrierMilli(l.fc, l.sps, k - 1), noise.scale)]
    IN  [lab |-> [l EXCEPT !.bits = bits, !.symbols = symbols, !.noise = noise,
                           !.demod = demod, !.runs = @ + 1],
         rng |-> g2]

----------------------------------------------------------------------------
(* The requests a client sends *)

ClosedSet == {"BPSK", "QPSK", "16-QAM", "64-QAM"}
ModNames == ClosedSet \cup {"8-PSK", ""}

\* (a request that leaves a key out is answered as the one that sends the default)
NumBitsInputs == {IntV(n) : n \in -1..MaxNumBits} \cup {StrV("abc")}
ModInputs == {StrV(m) : m \in ModNames}
NoiseInputs == {FloatV(Zero), FloatV(Tenth), FloatV(Tiny)}

Requests ==
    {NoBody} \cup
    {[body |-> TRUE, num_bits |-> n, modulation |-> m, noise_level |-> z] :
        n \in NumBitsInputs, m \in ModInputs, z \in NoiseInputs}

\* the path parameter of /constellation/<modulation> is never empty
PathRequest(m) == [body |-> TRUE, num_bits |-> AbsentNum, modulation |-> StrV(m),
                   noise_level |-> AbsentFloat]

NoBefore == [resp |-> NoResponse, run |-> NoRun]

Apps == {"server", "v2", "tooltips"}

\* the scripts that are run from the command line
Scripts == {"enhanced_app", "app"}

----------------------------------------------------------------------------
(* Request threads (the servers are started with app.run, which serves every
   request on a thread of its own) *)

Threads == {1, 2}

IdleThread == [pc |-> "idle", kind |-> "none", req |-> NoBody, bits |-> <<>>,
               used |-> "", modulated |-> NoWave, noise |-> NoNoise, df |-> EmptyDF,
               result |-> NoResult, plot |-> NoPlot, error |-> ""]

----------------------------------------------------------------------------
(* The server processes *)

InitWeb ==
    /\ lab = InitLab
    /\ lastOp = "none"
    /\ lastReq = NoBody
    /\ resp = NoResponse
    /\ run = NoRun
    /\ repeated = FALSE
    /\ before = NoBefore
    /\ tlab = InitTLab
    /\ perf = NoPerf
    /\ thr = [t \in Threads |-> IdleThread]

InitMapIdle ==
    /\ mbits = <<>>
    /\ msyms = <<>>
    /\ mwhich = "idle"

\* the tooltip database and the template file are not touched by the signal routes
NoFiles == [html_exists |-> FALSE, html |-> "", js_exists |-> FALSE]
NoOutcome == [op |-> "none"]
NoFix == [runs |-> 0, result |-> FALSE, wrote |-> FALSE, found |-> FALSE,
          initial |-> "", first |-> ""]
InitToolsIdle ==
    /\ custom = <<>>
    /\ cresp = NoOutcome
    /\ searchLog = <<>>
    /\ tresp = NoOutcome
    /\ files = NoFiles
    /\ fix = NoFix

Init ==
    /\ app \in Apps \cup Scripts
    /\ rng \in {[seed |-> s, pos |-> 0] : s \in EntropySeeds}
    /\ InitWeb
    /\ InitMapIdle
    /\ InitToolsIdle

\* a request with num_bits >= 1, a scheme every generator implements and
\* noise_level > 0
WellFormed(req) ==
    /\ req.body
    /\ req.num_bits.t = "int" /\ req.num_bits.v >= 1
    /\ req.modulation.t = "str" /\ req.modulation.v \in {"BPSK", "QPSK", "16-QAM"}
    /\ req.noise_level.t = "float" /\ req.noise_level.v.m > 0

\* bookkeeping of a /generate_signals request: what was asked, and, for a
\* well-formed request that repeats the one answered just before, the outcome of
\* that earlier run
Asked(req) ==
    /\ lastOp' = "generate_signals"
    /\ lastReq' = req
    /\ repeated' = (lastOp = "generate_signals" /\ lastReq = req /\ WellFormed(req))
    /\ before' = IF lastOp = "generate_signals" /\ lastReq = req /\ WellFormed(req)
                 THEN [resp |-> resp, run |-> run] ELSE NoBefore
    /\ perf' = NoPerf

AskedConstellation(m) ==
    /\ lastOp' = "constellation"
    /\ lastReq' = PathRequest(m)
    /\ repeated' = FALSE
    /\ before' = NoBefore
    /\ run' = NoRun
    /\ perf' = NoPerf

ServerGenerateSignals ==
    /\ app = "server"
    /\ \E req \in Requests :
          \E out \in {ServerGenerateSignalsRoute(lab, rng, req)} :
              /\ lab' = out.lab
              /\ rng' = out.rng
              /\ resp' = out.resp
              /\ run' = out.run
              /\ Asked(req)
    /\ UNCHANGED <<app, tlab, mapVars, thr, toolVars>>

ServerConstellation ==
    /\ app = "server"
    /\ \E m \in ModNames \ {""} :
          \E out \in {ServerConstellationRoute(lab, m)} :
              /\ lab' = out.lab
              /\ resp' = out.resp
              /\ AskedConstellation(m)
    /\ UNCHANGED <<app, rng, tlab, mapVars, thr, toolVars>>

V2GenerateSignals ==
    /\ app = "v2"
    /\ \E req \in Requests :
          \E out \in {StatelessGenerateSignals(rng, req)} :
              /\ rng' = out.rng
              /\ resp' = out.resp
              /\ run' = out.run
              /\ Asked(req)
    /\ UNCHANGED <<app, lab, tlab, mapVars, thr, toolVars>>

V2Constellation ==
    /\ app = "v2"
    /\ \E m \in ModNames \ {""} :
          /\ resp' = V2ConstellationRoute(m)
          /\ AskedConstellation(m)
    /\ UNCHANGED <<app, lab, rng, tlab, mapVars, thr, toolVars>>

TooltipsGenerateSignals ==
    /\ app = "tooltips"
    /\ \E req \in Requests :
          \E out \in {TooltipsGenerateSignalsRoute(rng, req)} :
              /\ rng' = out.rng
              /\ resp' = out.resp
              /\ run' = out.run
              /\ Asked(req)
    /\ UNCHANGED <<app, lab, tlab, mapVars, thr, toolVars>>

TooltipsConstellation ==
    /\ app = "tooltips"
    /\ \E m \in ModNames \ {""} :
          /\ resp' = TooltipsConstellationRoute(m)
          /\ AskedConstellation(m)
    /\ UNCHANGED <<app, lab, rng, tlab, mapVars, thr, toolVars>>

\* bookkeeping of an operation that takes no request parameters
AskedPlain(op) ==
    /\ lastOp' = op
    /\ lastReq' = NoBody
    /\ repeated' = FALSE
    /\ before' = NoBefore
    /\ run' = NoRun

PerformancePlotResponse ==
    Success200(NoResult, [NoPlot EXCEPT !.kind = "performance"], "")

\* flask_telecom_server: GET /performance_analysis
ServerPerformanceAnalysis ==
    /\ app = "server"
    /\ perf' = ServerPerformancePlot
    /\ resp' = PerformancePlotResponse
    /\ AskedPlain("performance_analysis")
    /\ UNCHANGED <<app, lab, rng, tlab, mapVars, thr, toolVars>>

\* enhanced_app_v2: GET /performance_analysis
V2PerformanceAnalysis ==
    /\ app = "v2"
    /\ perf' = V2PerformancePlot
    /\ resp' = PerformancePlotResponse
    /\ AskedPlain("performance_analysis")
    /\ UNCHANGED <<app, lab, rng, tlab, mapVars, thr, toolVars>>

\* flask_app_with_tooltips: GET /performance_analysis
TooltipsPerformanceAnalysis ==
    /\ app = "tooltips"
    /\ perf' = TooltipsPerformancePlot
    /\ resp' = PerformancePlotResponse
    /\ AskedPlain("performance_analysis")
    /\ UNCHANGED <<app, lab, rng, tlab, mapVars, thr, toolVars>>

\* enhanced_app: calculate_enhanced_performance_metrics
EnhancedPerformance ==
    /\ app = "enhanced_app"
    /\ \E np_has_erfc \in BOOLEAN : perf' = EnhancedPerformanceMetrics(np_has_erfc)
    /\ resp' = NoResponse
    /\ AskedPlain("calculate_enhanced_performance_metrics")
    /\ UNCHANGED <<app, lab, rng, tlab, mapVars, thr, toolVars>>

\* app.py: the caller sets the noise power of the object
AppConfigureNoise ==
    /\ app = "app"
    /\ \E p \in {Zero, Dec(3, -1)} : tlab' = [tlab EXCEPT !.noise_power = p]
    /\ perf' = NoPerf
    /\ resp' = NoResponse
    /\ AskedPlain("configure")
    /\ UNCHANGED <<app, lab, rng, mapVars, thr, toolVars>>

\* app.py: generate_signal_data
AppGenerateSignal ==
    /\ app = "app"
    /\ tlab.runs < MaxLabRuns
    /\ \E out \in {AppGenerateSignalData(tlab, rng)} :
          /\ tlab' = out.lab
          /\ rng' = out.rng
    /\ perf' = NoPerf
    /\ resp' = NoResponse
    /\ AskedPlain("generate_signal_data")
    /\ UNCHANGED <<app, lab, mapVars, thr, toolVars>>

\* app.py: generate_performance_analysis
AppPerformanceAnalysis ==
    /\ app = "app"
    /\ perf' = AppPerformancePlot
    /\ resp' = NoResponse
    /\ AskedPlain("generate_performance_analysis")
    /\ UNCHANGED <<app, lab, rng, tlab, mapVars, thr, toolVars>>

Next ==
    \/ ServerGenerateSignals
    \/ ServerConstellation
    \/ V2GenerateSignals
    \/ V2Constellation
    \/ TooltipsGenerateSignals
    \/ TooltipsConstellation
    \/ ServerPerformanceAnalysis
    \/ V2PerformanceAnalysis
    \/ TooltipsPerformanceAnalysis
    \/ EnhancedPerformance
    \/ AppConfigureNoise
    \/ AppGenerateSignal
    \/ AppPerformanceAnalysis

Spec == Init /\ [][Next]_vars

----------------------------------------------------------------------------
(* Two requests served at the same time. A step is one statement, or a run of
   statements that touch no shared object, of the handler a thread executes;
   the numpy calls are atomic. *)

ConcRequests ==
    {[body |-> TRUE, num_bits |-> IntV(n), modulation |-> StrV(m),
      noise_level |-> FloatV(Tenth)] : n \in 1..MaxNumBits, m \in {"BPSK", "QPSK"}}

ConcPaths == {"QPSK", "16-QAM", "8-PSK"}

concFrame == <<app, lastOp, lastReq, resp, run, repeated, before, tlab, perf, mapVars,
               toolVars>>

InitConc ==
    /\ app \in Apps
    /\ rng \in {[seed |-> s, pos |-> 0] : s \in EntropySeeds}
    /\ InitWeb
    /\ InitMapIdle
    /\ InitToolsIdle

\* POST /generate_signals arrives: the route reads the parameters of its request
ConcReceiveGenerate ==
    \E t \in Threads :
        /\ thr[t].pc = "idle"
        /\ \E req \in ConcRequests :
              thr' = [thr EXCEPT ![t] =
                        [IdleThread EXCEPT !.pc = IF app = "server" THEN "store" ELSE "seed",
                                           !.kind = "generate_signals", !.req = req]]
        /\ UNCHANGED <<lab, rng, concFrame>>

\* flask_telecom_server, generate_signals lines 90-92: the arguments are stored in
\* the shared object
ConcStore ==
    \E t \in Threads :
        /\ app = "server"
        /\ thr[t].pc = "store"
        /\ lab' = [lab EXCEPT
                     !.N = IF Truthy(thr[t].req.num_bits) THEN thr[t].req.num_bits ELSE @,
                     !.modulation = IF Truthy(thr[t].req.modulation)
                                    THEN thr[t].req.modulation.v ELSE @,
                     !.noise_power = IF Truthy(thr[t].req.noise_level)
                                     THEN thr[t].req.noise_level.v ELSE @]
        /\ thr' = [thr EXCEPT ![t].pc = "seed"]
        /\ UNCHANGED <<rng, concFrame>>

\* np.random.seed(42)
ConcSeed ==
    \E t \in Threads :
        /\ thr[t].pc = "seed"
        /\ rng' = SeedRng(rng)
        /\ thr' = [thr EXCEPT ![t].pc = "bits"]
        /\ UNCHANGED <<lab, concFrame>>

\* bits = np.random.randint(0, 2, N): N is self.N in flask_telecom_server, the
\* local num_bits in the stateless routes
ConcDrawBits ==
    \E t \in Threads :
        /\ thr[t].pc = "bits"
        /\ LET n == IF app = "server" THEN lab.N.v ELSE thr[t].req.num_bits.v
           IN  /\ thr' = [thr EXCEPT ![t].pc = "modulate", ![t].bits = RandInt(rng, n)]
               /\ rng' = Advance(rng, n)
        /\ UNCHANGED <<lab, concFrame>>

\* the modulation branch and noise = scale * np.random.randn(len(modulated));
\* flask_telecom_server reads self.modulation, self.sps and self.noise_power
ConcModulateAndNoise ==
    \E t \in Threads :
        /\ thr[t].pc = "modulate"
        /\ IF app = "server"
           THEN IF lab.modulation \notin ServerSchemes
                THEN /\ thr' = [thr EXCEPT ![t].pc = "done",
                                           ![t].error = "UnboundLocalError"]
                     /\ rng' = rng
                ELSE LET modulated == ServerModulate(lab.modulation, thr[t].bits, lab.sps)
                     IN  /\ thr' = [thr EXCEPT
                                      ![t].pc = "save",
                                      ![t].used = lab.modulation,
                                      ![t].modulated = modulated,
                                      ![t].noise = Randn(rng, lab.noise_power, modulated.len)]
                         /\ rng' = Advance(rng, modulated.len)
           ELSE LET symbols == Antipodal(thr[t].bits)
                    signal == Wave(symbols, <<>>, Len(symbols) * SAMPLES_PER_SYMBOL)
                    noise == Randn(rng, thr[t].req.noise_level.v, signal.len)
                    df == [samples |-> signal.len, bits |-> thr[t].bits,
                           modulated |-> signal, noise |-> noise]
                IN  /\ thr' = [thr EXCEPT
                                 ![t].pc = "done",
                                 ![t].used = thr[t].req.modulation.v,
                                 ![t].modulated = signal,
                                 ![t].noise = noise,
                                 ![t].df = df,
                                 ![t].result = [present |-> TRUE, bits |-> thr[t].bits,
                                                modulation |-> thr[t].req.modulation.v,
                                                samples |-> signal.len,
                                                snr_db |-> SnrStateless(noise)],
                                 ![t].plot = [kind |-> "signal",
                                              title |-> thr[t].req.modulation.v, df |-> df,
                                              points |-> {}, scale |-> ""]]
                    /\ rng' = Advance(rng, signal.len)
        /\ UNCHANGED <<lab, concFrame>>

\* flask_telecom_server, generate_signals lines 154-169: self.signal_df is
\* assigned and the result is built, reading self.modulation
ConcSave ==
    \E t \in Threads :
        /\ app = "server"
        /\ thr[t].pc = "save"
        /\ LET samples == Min(Len(thr[t].bits) * lab.sps, thr[t].modulated.len)
               df == [samples |-> samples, bits |-> thr[t].bits,
                      modulated |-> thr[t].modulated, noise |-> thr[t].noise]
           IN  /\ lab' = [lab EXCEPT !.signal_df = df]
               /\ thr' = [thr EXCEPT
                            ![t].pc = "plot",
                            ![t].df = df,
                            ![t].result = [present |-> TRUE, bits |-> thr[t].bits,
                                           modulation |-> lab.modulation,
                                           samples |-> samples,
                                           snr_db |-> SnrServer(thr[t].modulated,
                                                                thr[t].noise)]]
        /\ UNCHANGED <<rng, concFrame>>

\* flask_telecom_server, route line 396: telecom_lab.generate_signal_plot()
ConcPlot ==
    \E t \in Threads :
        /\ app = "server"
        /\ thr[t].pc = "plot"
        /\ thr' = [thr EXCEPT ![t].pc = "done", ![t].plot = WebLabSignalPlot(lab)]
        /\ UNCHANGED <<lab, rng, concFrame>>

\* GET /constellation/<modulation> arrives at flask_telecom_server
ConcReceiveConstellation ==
    \E t \in Threads :
        /\ app = "server"
        /\ thr[t].pc = "idle"
        /\ \E m \in ConcPaths :
              thr' = [thr EXCEPT ![t] = [IdleThread EXCEPT !.pc = "c_store",
                                                           !.kind = "constellation",
                                                           !.req = PathRequest(m)]]
        /\ UNCHANGED <<lab, rng, concFrame>>

\* generate_constellation_plot line 233: if modulation: self.modulation = modulation
ConcConstellationStore ==
    \E t \in Threads :
        /\ thr[t].pc = "c_store"
        /\ lab' = [lab EXCEPT !.modulation = thr[t].req.modulation.v]
        /\ thr' = [thr EXCEPT ![t].pc = "c_draw"]
        /\ UNCHANGED <<rng, concFrame>>

\* generate_constellation_plot lines 235-281: the figure of self.modulation
ConcConstellationDraw ==
    \E t \in Threads :
        /\ thr[t].pc = "c_draw"
        /\ thr' = [thr EXCEPT ![t].pc = "done",
                              ![t].plot = WebLabConstellationPlot(lab, "").plot]
        /\ UNCHANGED <<lab, rng, concFrame>>

NextConc ==
    \/ ConcReceiveGenerate
    \/ ConcStore
    \/ ConcSeed
    \/ ConcDrawBits
    \/ ConcModulateAndNoise
    \/ ConcSave
    \/ ConcPlot
    \/ ConcReceiveConstellation
    \/ ConcConstellationStore
    \/ ConcConstellationDraw

SpecConc == InitConc /\ [][NextConc]_vars

----------------------------------------------------------------------------
(* The 16-QAM symbol mappers, applied to every bit sequence up to MaxMapBits *)

BitSeqs(max) == UNION {[1..n -> {0, 1}] : n \in 1..max}

InitMapper ==
    /\ app = "server"
    /\ rng = [seed |-> SEED, pos |-> 0]
    /\ InitWeb
    /\ mbits \in BitSeqs(MaxMapBits)
    /\ msyms = <<>>
    /\ mwhich = "none"
    /\ InitToolsIdle

\* enhanced_app: the gray_16qam lookup of generate_advanced_modulation_signals
MapGray16 ==
    /\ mwhich = "none"
    /\ msyms' = EnhancedQam16Symbols(mbits)
    /\ mwhich' = "gray_16qam"
    /\ UNCHANGED <<mbits, webVars, labVars, thr, toolVars>>

\* flask_telecom_server: the arithmetic mapping of WebTelecomLab.generate_signals
MapArith16 ==
    /\ mwhich = "none"
    /\ msyms' = ServerQam16Symbols(mbits)
    /\ mwhich' = "arith16"
    /\ UNCHANGED <<mbits, webVars, labVars, thr, toolVars>>

\* enhanced_app: the QPSK pairing of generate_advanced_modulation_signals
MapEnhancedQpsk ==
    /\ mwhich = "none"
    /\ msyms' = EnhancedQpskSymbols(mbits)
    /\ mwhich' = "enhanced_qpsk"
    /\ UNCHANGED <<mbits, webVars, labVars, thr, toolVars>>

\* flask_telecom_server: the QPSK pairing of WebTelecomLab.generate_signals
MapServerQpsk ==
    /\ mwhich = "none"
    /\ msyms' = ServerQpskSymbols(mbits)
    /\ mwhich' = "server_qpsk"
    /\ UNCHANGED <<mbits, webVars, labVars, thr, toolVars>>

NextMapper == MapGray16 \/ MapArith16 \/ MapEnhancedQpsk \/ MapServerQpsk

SpecMapper == InitMapper /\ [][NextMapper]_vars

----------------------------------------------------------------------------
(* Python strings. A str is a TLA+ string; the methods used by the tooltip
   routes and by the fix script are computed character by character. *)

AsciiUpper == "ABCDEFGHIJKLMNOPQRSTUVWXYZ"
AsciiLower == "abcdefghijklmnopqrstuvwxyz"

CharAt(s, i) == SubSeq(s, i, i)

\* the position of character c in an alphabet, 0 when it is not a letter of it
CharIndex(c, alphabet) ==
    IF \E i \in 1..Len(alphabet) : CharAt(alphabet, i) = c
    THEN CHOOSE i \in 1..Len(alphabet) : CharAt(alphabet, i) = c
    ELSE 0

LowerChar(c) ==
    LET i == CharIndex(c, AsciiUpper) IN IF i = 0 THEN c ELSE CharAt(AsciiLower, i)

UpperChar(c) ==
    LET i == CharIndex(c, AsciiLower) IN IF i = 0 THEN c ELSE CharAt(AsciiUpper, i)

\* str.lower()
RECURSIVE Lower(_)
Lower(s) == IF s = "" THEN "" ELSE LowerChar(CharAt(s, 1)) \o Lower(Tail(s))

\* str.upper()
RECURSIVE Upper(_)
Upper(s) == IF s = "" THEN "" ELSE UpperChar(CharAt(s, 1)) \o Upper(Tail(s))

IsSpace(c) == c \in {" ", "\t", "\n", "\r"}

RECURSIVE LStrip(_)
LStrip(s) == IF s # "" /\ IsSpace(CharAt(s, 1)) THEN LStrip(Tail(s)) ELSE s

RECURSIVE RStrip(_)
RStrip(s) ==
    IF s # "" /\ IsSpace(CharAt(s, Len(s))) THEN RStrip(SubSeq(s, 1, Len(s) - 1)) ELSE s

\* str.strip()
Strip(s) == RStrip(LStrip(s))

\* sub in s
IsIn(sub, s) == \E i \in 0..(Len(s) - Len(sub)) : SubSeq(s, i + 1, i + Len(sub)) = sub

\* s.startswith(prefix)
StartsWith(s, prefix) == Len(prefix) <= Len(s) /\ SubSeq(s, 1, Len(prefix)) = prefix

\* the first word of a string that does not begin with white space
RECURSIVE FirstWord(_)
FirstWord(s) ==
    IF s = "" \/ IsSpace(CharAt(s, 1)) THEN "" ELSE CharAt(s, 1) \o FirstWord(Tail(s))

\* str.split(): the words between runs of white space
RECURSIVE Split(_)
Split(s) ==
    LET t == LStrip(s)
        w == FirstWord(t)
    IN  IF t = "" THEN <<>> ELSE <<w>> \o Split(SubSeq(t, Len(w) + 1, Len(t)))

\* s.replace(old, new) for a non-empty old: every occurrence, left to right
RECURSIVE Replace(_, _, _)
Replace(s, old, new) ==
    IF ~IsIn(old, s) THEN s
    ELSE LET at == CHOOSE i \in 1..Len(s) :
                       /\ SubSeq(s, i, i + Len(old) - 1) = old
                       /\ \A j \in 1..(i - 1) : SubSeq(s, j, j + Len(old) - 1) # old
         IN  SubSeq(s, 1, at - 1) \o new
                 \o Replace(SubSeq(s, at + Len(old), Len(s)), old, new)

----------------------------------------------------------------------------
(* Python dicts written as literals: a sequence of <<key, value>> entries *)

DictKeys(items) == {items[i][1] : i \in DOMAIN items}

\* d[k]: the value of the last entry written with key k
DictGet(items, k) ==
    LET written == {n \in DOMAIN items : items[n][1] = k}
    IN  items[CHOOSE n \in written : \A m \in written : m <= n][2]

\* the n-th smallest element of a set of numbers
Nth(S, n) == CHOOSE i \in S : Cardinality({j \in S : j <= i}) = n

\* the elements of a sequence at the positions in S, in their order
Picked(seq, S) == [n \in 1..Cardinality(S) |-> seq[Nth(S, n)]]

\* the keys in iteration order: each key at the place of its first entry
DictOrder(items) ==
    LET first == {i \in DOMAIN items : \A j \in 1..(i - 1) : items[j][1] # items[i][1]}
    IN  [n \in 1..Cardinality(first) |-> items[Nth(first, n)][1]]

\* x in list
InList(x, list) == \E i \in DOMAIN list : list[i] = x

\* list[:n]
Slice(list, n) ==
    IF n >= 0 THEN SubSeq(list, 1, Min(n, Len(list)))
    ELSE SubSeq(list, 1, Len(list) + n)

----------------------------------------------------------------------------
(* The acronym databases *)

\* enhanced_app_v2.load_acronyms: the entries of the "acronyms" dict literal, in
\* the order written (a key written twice keeps its place and takes the later value)
V2AcronymItems == <<
    <<"5G",
      "Fifth Generation - The latest standard for broadband cellular networks">>,
    <<"6G",
      "Sixth Generation - Next-generation wireless technology beyond 5G">>,
    <<"NR",
      "New Radio - The radio access technology for 5G networks">>,
    <<"ORAN",
      "Open Radio Access Network - An initiative to disaggregate RAN functions">>,
    <<"O-RAN",
      "Open Radio Access Network - An open and intelligent RAN architecture">>,
    <<"RAN",
      "Radio Access Network - Part of a mobile telecommunication system">>,
    <<"NSA",
      "Non-Standalone - 5G deployment mode using existing 4G core">>,
    <<"SA",
      "Standalone - Pure 5G deployment with 5G core network">>,
    <<"FR1",
      "Frequency Range 1 - Sub-6 GHz frequency bands for 5G">>,
    <<"FR2",
      "Frequency Range 2 - mmWave frequency bands for 5G (24-100 GHz)">>,
    <<"5GC",
      "5G Core - Core network architecture for 5G networks">>,
    <<"EPC",
      "Evolved Packet Core - Core network architecture for LTE">>,
    <<"AMF",
      "Access and Mobility Management Function - 5G core network function">>,
    <<"SMF",
      "Session Management Function - 5G core network function">>,
    <<"UPF",
      "User Plane Function - 5G core network function for data routing">>,
    <<"AUSF",
      "Authentication Server Function - 5G core network function">>,
    <<"UDM",
      "Unified Data Management - 5G core network function">>,
    <<"UDR",
      "Unified Data Repository - 5G data storage function">>,
    <<"PCF",
      "Policy Control Function - 5G policy management function">>,
    <<"NSSF",
      "Network Slice Selection Function - 5G network slicing function">>,
    <<"NRF",
      "Network Repository Function - 5G service discovery function">>,
    <<"NEF",
      "Network Exposure Function - 5G external API gateway">>,
    <<"AF",
      "Application Function - 5G application integration function">>,
    <<"UDSF",
      "Unstructured Data Storage Function - 5G analytics data storage">>,
    <<"NWDAF",
      "Network Data Analytics Function - 5G AI/ML analytics">>,
    <<"CHF",
      "Charging Function - 5G charging and billing function">>,
    <<"BSF",
      "Binding Support Function - 5G service binding function">>,
    <<"RIC",
      "RAN Intelligent Controller - AI/ML enabled RAN optimization platform">>,
    <<"Near-RT RIC",
      "Near Real-Time RAN Intelligent Controller - Edge RAN intelligence">>,
    <<"Non-RT RIC",
      "Non Real-Time RAN Intelligent Controller - Cloud RAN intelligence">>,
    <<"SMO",
      "Service Management and Orchestration - O-RAN management function">>,
    <<"CU",
      "Central Unit - Upper layer RAN function in 5G architecture">>,
    <<"DU",
      "Distributed Unit - Lower layer RAN function in 5G architecture">>,
    <<"RU",
      "Radio Unit - Radio frequency part of base station">>,
    <<"O-CU",
      "O-RAN Central Unit - Centralized baseband processing unit">>,
    <<"O-DU",
      "O-RAN Distributed Unit - Distributed baseband processing unit">>,
    <<"O-RU",
      "O-RAN Radio Unit - Open radio unit interface">>,
    <<"O-Cloud",
      "O-RAN Cloud - Cloud infrastructure for O-RAN functions">>,
    <<"rApp",
      "RAN Application - Applications running on Non-RT RIC">>,
    <<"xApp",
      "RAN Application - Applications running on Near-RT RIC">>,
    <<"BPSK",
      "Binary Phase Shift Keying - Digital modulation technique using phase changes">>,
    <<"QPSK",
      "Quadrature Phase Shift Keying - Digital modulation technique using four phase states">>,
    <<"QAM",
      "Quadrature Amplitude Modulation - Digital modulation scheme using amplitude and phase">>,
    <<"16-QAM",
      "16-Quadrature Amplitude Modulation - QAM using 16 distinct combinations">>,
    <<"64-QAM",
      "64-Quadrature Amplitude Modulation - QAM using 64 distinct combinations">>,
    <<"256-QAM",
      "256-Quadrature Amplitude Modulation - High-order QAM scheme">>,
    <<"1024-QAM",
      "1024-Quadrature Amplitude Modulation - Ultra-high-order QAM">>,
    <<"OFDM",
      "Orthogonal Frequency Division Multiplexing - Multi-carrier modulation technique">>,
    <<"OFDMA",
      "Orthogonal Frequency Division Multiple Access - Multi-user OFDM">>,
    <<"SC-FDMA",
      "Single Carrier Frequency Division Multiple Access - Uplink access scheme">>,
    <<"DFT-S-OFDM",
      "Discrete Fourier Transform Spread OFDM - 5G uplink waveform">>,
    <<"CP-OFDM",
      "Cyclic Prefix OFDM - Standard OFDM with cyclic prefix">>,
    <<"FBMC",
      "Filter Bank Multicarrier - Advanced waveform for 6G">>,
    <<"UFMC",
      "Universal Filtered Multicarrier - 5G candidate waveform">>,
    <<"GFDM",
      "Generalized Frequency Division Multiplexing - Advanced modulation">>,
    <<"MIMO",
      "Multiple-Input Multiple-Output - Multi-antenna technology">>,
    <<"SU-MIMO",
      "Single-User MIMO - MIMO for one user at a time">>,
    <<"MU-MIMO",
      "Multi-User MIMO - MIMO serving multiple users simultaneously">>,
    <<"Massive MIMO",
      "Large-scale MIMO - MIMO with hundreds of antennas">>,
    <<"FD-MIMO",
      "Full-Dimension MIMO - 3D beamforming MIMO system">>,
    <<"Distributed MIMO",
      "Distributed MIMO - Spatially distributed antenna system">>,
    <<"CoMP",
      "Coordinated Multipoint - Cooperative MIMO transmission">>,
    <<"Beamforming",
      "Beamforming - Directional signal transmission technique">>,
    <<"Precoding",
      "Precoding - Signal preprocessing for MIMO systems">>,
    <<"eMBB",
      "Enhanced Mobile Broadband - High-speed data service category">>,
    <<"URLLC",
      "Ultra-Reliable Low Latency Communication - Mission-critical service">>,
    <<"mMTC",
      "Massive Machine Type Communication - IoT service category">>,
    <<"V2X",
      "Vehicle-to-Everything - Automotive communication service">>,
    <<"V2V",
      "Vehicle-to-Vehicle - Direct vehicle communication">>,
    <<"V2I",
      "Vehicle-to-Infrastructure - Vehicle to roadside communication">>,
    <<"V2N",
      "Vehicle-to-Network - Vehicle to cellular network communication">>,
    <<"V2P",
      "Vehicle-to-Pedestrian - Vehicle to pedestrian device communication">>,
    <<"XR",
      "Extended Reality - AR/VR/MR applications">>,
    <<"AR",
      "Augmented Reality - Computer-generated overlay on real world">>,
    <<"VR",
      "Virtual Reality - Immersive computer-generated environment">>,
    <<"MR",
      "Mixed Reality - Blend of physical and digital worlds">>,
    <<"Tactile Internet",
      "Tactile Internet - Ultra-low latency haptic communication">>,
    <<"Digital Twin",
      "Digital Twin - Real-time digital replica of physical systems">>,
    <<"BER",
      "Bit Error Rate - Percentage of bits with errors">>,
    <<"PER",
      "Packet Error Rate - Percentage of packets with errors">>,
    <<"FER",
      "Frame Error Rate - Percentage of frames with errors">>,
    <<"BLER",
      "Block Error Rate - Percentage of blocks with errors">>,
    <<"SNR",
      "Signal-to-Noise Ratio - Signal strength vs noise measure">>,
    <<"SINR",
      "Signal-to-Interference-plus-Noise Ratio - Signal quality with interference">>,
    <<"CNR",
      "Carrier-to-Noise Ratio - Carrier signal vs noise measure">>,
    <<"RSSI",
      "Received Signal Strength Indicator - Power level measurement">>,
    <<"RSRP",
      "Reference Signal Received Power - LTE/5G signal strength">>,
    <<"RSRQ",
      "Reference Signal Received Quality - LTE/5G signal quality">>,
    <<"SS-RSRP",
      "Synchronization Signal RSRP - 5G NR signal strength">>,
    <<"SS-RSRQ",
      "Synchronization Signal RSRQ - 5G NR signal quality">>,
    <<"SS-SINR",
      "Synchronization Signal SINR - 5G NR signal quality">>,
    <<"CQI",
      "Channel Quality Indicator - Feedback for link adaptation">>,
    <<"PMI",
      "Precoding Matrix Indicator - MIMO precoding feedback">>,
    <<"RI",
      "Rank Indicator - MIMO layer count feedback">>,
    <<"CSI",
      "Channel State Information - Complete channel feedback">>,
    <<"QoS",
      "Quality of Service - Network performance guarantee">>,
    <<"QoE",
      "Quality of Experience - User-perceived service quality">>,
    <<"SLS",
      "Service Level Specification - Network slice performance requirements">>,
    <<"RF",
      "Radio Frequency - Electromagnetic waves for communication">>,
    <<"mmWave",
      "Millimeter Wave - High-frequency radio waves (24-100 GHz)">>,
    <<"Sub-6",
      "Sub-6 GHz - Frequency bands below 6 GHz">>,
    <<"THz",
      "Terahertz - Ultra-high frequency waves (0.1-10 THz)">>,
    <<"Beamforming",
      "Beamforming - Directional antenna transmission">>,
    <<"Beam Steering",
      "Beam Steering - Dynamic beam direction control">>,
    <<"Beam Tracking",
      "Beam Tracking - Following mobile device with beam">>,
    <<"Beam Management",
      "Beam Management - Complete beam control system">>,
    <<"Cell-Free",
      "Cell-Free - Distributed antenna system without cell boundaries">>,
    <<"RIS",
      "Reconfigurable Intelligent Surface - Smart reflecting surfaces">>,
    <<"IRS",
      "Intelligent Reflecting Surface - Programmable metasurfaces">>,
    <<"UAV",
      "Unmanned Aerial Vehicle - Drone-based communication">>,
    <<"HAP",
      "High Altitude Platform - Stratospheric communication platform">>,
    <<"LEO",
      "Low Earth Orbit - Satellite constellation at low altitude">>,
    <<"MEO",
      "Medium Earth Orbit - Satellite constellation at medium altitude">>,
    <<"GEO",
      "Geostationary Earth Orbit - Fixed position satellite">>,
    <<"AI",
      "Artificial Intelligence - Machine intelligence for network optimization">>,
    <<"ML",
      "Machine Learning - Algorithm learning from data">>,
    <<"DL",
      "Deep Learning - Multi-layer neural network learning">>,
    <<"RL",
      "Reinforcement Learning - Trial-and-error based learning">>,
    <<"FL",
      "Federated Learning - Distributed machine learning">>,
    <<"AutoML",
      "Automated Machine Learning - Automated ML model development">>,
    <<"MLOps",
      "Machine Learning Operations - ML lifecycle management">>,
    <<"AIOps",
      "Artificial Intelligence for IT Operations - AI-driven operations">>,
    <<"Intent-Based",
      "Intent-Based Networking - High-level policy automation">>,
    <<"Zero-Touch",
      "Zero-Touch Network - Fully automated network management">>,
    <<"SON",
      "Self-Organizing Network - Automated network optimization">>,
    <<"ANR",
      "Automatic Neighbor Relations - Self-configuring neighbor lists">>,
    <<"SSL",
      "Secure Sockets Layer - Encryption protocol">>,
    <<"TLS",
      "Transport Layer Security - SSL successor encryption protocol">>,
    <<"IPSec",
      "Internet Protocol Security - IP layer security framework">>,
    <<"VPN",
      "Virtual Private Network - Secure network tunnel">>,
    <<"PKI",
      "Public Key Infrastructure - Digital certificate management">>,
    <<"AES",
      "Advanced Encryption Standard - Symmetric encryption algorithm">>,
    <<"RSA",
      "Rivest-Shamir-Adleman - Public key encryption algorithm">>,
    <<"ECC",
      "Elliptic Curve Cryptography - Public key cryptography method">>,
    <<"ECDSA",
      "Elliptic Curve Digital Signature Algorithm - Digital signature">>,
    <<"ECDH",
      "Elliptic Curve Diffie-Hellman - Key exchange algorithm">>,
    <<"5G-AKA",
      "5G Authentication and Key Agreement - 5G security protocol">>,
    <<"SUCI",
      "Subscription Concealed Identifier - Privacy-preserving identifier">>,
    <<"SUPI",
      "Subscription Permanent Identifier - Permanent user identifier">>,
    <<"GUTI",
      "Globally Unique Temporary Identifier - Temporary user identifier">>,
    <<"PEI",
      "Permanent Equipment Identifier - Device identifier">>,
    <<"Zero Trust",
      "Zero Trust - Never trust, always verify security model">>,
    <<"SASE",
      "Secure Access Service Edge - Cloud-delivered network security">>,
    <<"ZTNA",
      "Zero Trust Network Access - Secure remote access">>,
    <<"Blockchain",
      "Blockchain - Distributed ledger technology">>,
    <<"DLT",
      "Distributed Ledger Technology - Decentralized database">>,
    <<"Smart Contract",
      "Smart Contract - Self-executing contract with code">>,
    <<"NFT",
      "Non-Fungible Token - Unique digital asset">>,
    <<"Metaverse",
      "Metaverse - Persistent virtual shared space">>,
    <<"Web3",
      "Web3 - Decentralized internet built on blockchain">>,
    <<"DeFi",
      "Decentralized Finance - Blockchain-based financial services">>,
    <<"DAO",
      "Decentralized Autonomous Organization - Blockchain governance">>,
    <<"Quantum Computing",
      "Quantum Computing - Computing using quantum mechanics">>,
    <<"QKD",
      "Quantum Key Distribution - Quantum-secure key exchange">>,
    <<"PQC",
      "Post-Quantum Cryptography - Quantum-resistant encryption">>,
    <<"Neuromorphic",
      "Neuromorphic Computing - Brain-inspired computing">>,
    <<"Photonic",
      "Photonic Computing - Light-based computing">>,
    <<"DNA Storage",
      "DNA Storage - Data storage using DNA molecules">>,
    <<"3GPP",
      "3rd Generation Partnership Project - Mobile standards organization">>,
    <<"IEEE",
      "Institute of Electrical and Electronics Engineers - Technical standards">>,
    <<"ITU",
      "International Telecommunication Union - UN telecom agency">>,
    <<"ITU-T",
      "ITU Telecommunication Standardization Sector - Telecom standards">>,
    <<"ITU-R",
      "ITU Radiocommunication Sector - Radio standards">>,
    <<"ETSI",
      "European Telecommunications Standards Institute - European standards">>,
    <<"IETF",
      "Internet Engineering Task Force - Internet standards">>,
    <<"W3C",
      "World Wide Web Consortium - Web standards">>,
    <<"GSMA",
      "GSM Association - Mobile operator alliance">>,
    <<"O-RAN Alliance",
      "Open RAN Alliance - Open RAN standards consortium">>,
    <<"TIP",
      "Telecom Infra Project - Open source telecom infrastructure">>,
    <<"Linux Foundation",
      "Linux Foundation - Open source software collaboration">>,
    <<"CNCF",
      "Cloud Native Computing Foundation - Cloud native standards">>,
    <<"ONF",
      "Open Networking Foundation - SDN standards organization">>,
    <<"IoT",
      "Internet of Things - Network of connected devices">>,
    <<"IIoT",
      "Industrial Internet of Things - IoT in industrial settings">>,
    <<"AIoT",
      "Artificial Intelligence of Things - AI-powered IoT devices">>,
    <<"M2M",
      "Machine-to-Machine - Direct device communication">>,
    <<"WSN",
      "Wireless Sensor Network - Network of sensor nodes">>,
    <<"RFID",
      "Radio Frequency Identification - Wireless identification technology">>,
    <<"NFC",
      "Near Field Communication - Short-range communication technology">>,
    <<"LoRa",
      "Long Range - Low-power wide-area network technology">>,
    <<"LoRaWAN",
      "LoRa Wide Area Network - Network protocol for LoRa">>,
    <<"Sigfox",
      "Sigfox - Low-power wide-area network technology">>,
    <<"NB-IoT",
      "Narrowband IoT - Cellular IoT technology">>,
    <<"LTE-M",
      "LTE for Machines - Cellular IoT technology">>,
    <<"Cat-M1",
      "Category M1 - LTE-M device category">>,
    <<"LPWAN",
      "Low-Power Wide-Area Network - IoT connectivity technology">>,
    <<"Thread",
      "Thread - IPv6-based mesh networking for IoT">>,
    <<"Matter",
      "Matter - Universal IoT connectivity standard">>,
    <<"Zigbee",
      "Zigbee - Low-power mesh networking standard">>,
    <<"Z-Wave",
      "Z-Wave - Low-power mesh networking for home automation">>
>>

\* enhanced_app_v2.load_acronyms: "categories"
V2Categories == <<
    <<"5G/6G Technologies",
      <<"5G", "6G", "NR", "ORAN", "O-RAN", "RAN", "NSA", "SA", "FR1", "FR2", "gNB",
        "ng-eNB">>>>,
    <<"Core Network",
      <<"5GC", "EPC", "AMF", "SMF", "UPF", "AUSF", "UDM", "UDR", "PCF", "NSSF", "NRF",
        "NEF", "AF", "UDSF", "NWDAF", "CHF", "BSF">>>>,
    <<"RAN Components",
      <<"RIC", "Near-RT RIC", "Non-RT RIC", "SMO", "CU", "DU", "RU", "O-CU", "O-DU",
        "O-RU", "O-Cloud", "rApp", "xApp">>>>,
    <<"Modulation",
      <<"BPSK", "QPSK", "QAM", "16-QAM", "64-QAM", "256-QAM", "1024-QAM", "OFDM",
        "OFDMA", "SC-FDMA", "DFT-S-OFDM", "CP-OFDM", "FBMC", "UFMC", "GFDM">>>>,
    <<"MIMO Technologies",
      <<"MIMO", "SU-MIMO", "MU-MIMO", "Massive MIMO", "FD-MIMO", "Distributed MIMO",
        "CoMP", "Beamforming", "Precoding">>>>,
    <<"Service Categories",
      <<"eMBB", "URLLC", "mMTC", "V2X", "V2V", "V2I", "V2N", "V2P", "XR", "AR", "VR",
        "MR", "Tactile Internet", "Digital Twin">>>>,
    <<"Performance Metrics",
      <<"BER", "PER", "FER", "BLER", "SNR", "SINR", "CNR", "RSSI", "RSRP", "RSRQ",
        "SS-RSRP", "SS-RSRQ", "SS-SINR", "CQI", "PMI", "RI", "CSI", "QoS", "QoE", "SLS">>>>,
    <<"Radio Technologies",
      <<"RF", "mmWave", "Sub-6", "THz", "Beam Steering", "Beam Tracking",
        "Beam Management", "Cell-Free", "RIS", "IRS", "UAV", "HAP", "LEO", "MEO", "GEO">>>>,
    <<"AI/ML",
      <<"AI", "ML", "DL", "RL", "FL", "AutoML", "MLOps", "AIOps", "Intent-Based",
        "Zero-Touch", "SON", "ANR">>>>,
    <<"Security",
      <<"SSL", "TLS", "IPSec", "VPN", "PKI", "AES", "RSA", "ECC", "ECDSA", "ECDH",
        "5G-AKA", "SUCI", "SUPI", "GUTI", "PEI", "Zero Trust", "SASE", "ZTNA">>>>,
    <<"Emerging Technologies",
      <<"Blockchain", "DLT", "Smart Contract", "NFT", "Metaverse", "Web3", "DeFi",
        "DAO", "Quantum Computing", "QKD", "PQC", "Neuromorphic", "Photonic",
        "DNA Storage">>>>,
    <<"Standards Organizations",
      <<"3GPP", "IEEE", "ITU", "ITU-T", "ITU-R", "ETSI", "IETF", "W3C", "GSMA",
        "O-RAN Alliance", "TIP", "Linux Foundation", "CNCF", "ONF">>>>,
    <<"IoT Technologies",
      <<"IoT", "IIoT", "AIoT", "M2M", "WSN", "RFID", "NFC", "LoRa", "LoRaWAN",
        "Sigfox", "NB-IoT", "LTE-M", "Cat-M1", "LPWAN", "Thread", "Matter", "Zigbee",
        "Z-Wave">>>>
>>

\* flask_app_with_tooltips.load_acronyms: "acronyms"
TooltipsAcronymItems == <<
    <<"5G",
      "Fifth Generation - The latest standard for broadband cellular networks">>,
    <<"6G",
      "Sixth Generation - Next-generation wireless technology beyond 5G">>,
    <<"NR",
      "New Radio - The radio access technology for 5G networks">>,
    <<"ORAN",
      "Open Radio Access Network - An initiative to disaggregate RAN functions">>,
    <<"O-RAN",
      "Open Radio Access Network - An open and intelligent RAN architecture">>,
    <<"RAN",
      "Radio Access Network - Part of a mobile telecommunication system">>,
    <<"BER",
      "Bit Error Rate - The percentage of bits with errors relative to total bits transmitted">>,
    <<"SNR",
      "Signal-to-Noise Ratio - Measure of signal strength relative to background noise">>,
    <<"BPSK",
      "Binary Phase Shift Keying - Digital modulation technique using phase changes">>,
    <<"QPSK",
      "Quadrature Phase Shift Keying - Digital modulation technique using four phase states">>,
    <<"QAM",
      "Quadrature Amplitude Modulation - Digital modulation scheme using amplitude and phase">>,
    <<"16-QAM",
      "16-Quadrature Amplitude Modulation - QAM using 16 distinct amplitude and phase combinations">>,
    <<"64-QAM",
      "64-Quadrature Amplitude Modulation - QAM using 64 distinct amplitude and phase combinations">>,
    <<"RF",
      "Radio Frequency - Electromagnetic wave frequencies used for radio communication">>,
    <<"ADC",
      "Analog-to-Digital Converter - Converts analog signals to digital format">>,
    <<"DAC",
      "Digital-to-Analog Converter - Converts digital signals to analog format">>,
    <<"OFDM",
      "Orthogonal Frequency Division Multiplexing - Modulation technique using multiple subcarriers">>,
    <<"MIMO",
      "Multiple-Input Multiple-Output - Technology using multiple antennas at transmitter and receiver">>,
    <<"eMBB",
      "Enhanced Mobile Broadband - 5G service category for high-speed data applications">>,
    <<"URLLC",
      "Ultra-Reliable Low Latency Communication - 5G service category for mission-critical applications">>,
    <<"mMTC",
      "Massive Machine Type Communication - 5G service category for IoT applications">>,
    <<"IoT",
      "Internet of Things - Network of interconnected devices and sensors">>,
    <<"VoIP",
      "Voice over Internet Protocol - Technology for voice communication over IP networks">>,
    <<"Wi-Fi",
      "Wireless Fidelity - Wireless local area networking technology">>,
    <<"LTE",
      "Long Term Evolution - Standard for wireless broadband communication (4G)">>,
    <<"mmWave",
      "Millimeter Wave - High-frequency radio waves (24-100 GHz)">>,
    <<"QoS",
      "Quality of Service - Network performance measurement and management">>,
    <<"API",
      "Application Programming Interface - Set of protocols for building software applications">>
>>

\* flask_app_with_tooltips.load_acronyms: "categories"
TooltipsCategories == <<
    <<"Modulation",
      <<"BPSK", "QPSK", "QAM", "16-QAM", "64-QAM", "OFDM">>>>,
    <<"Network Architecture",
      <<"5G", "6G", "LTE", "ORAN", "O-RAN", "RAN">>>>,
    <<"Performance Metrics",
      <<"BER", "SNR", "QoS">>>>,
    <<"Radio Technologies",
      <<"MIMO", "mmWave", "RF", "NR", "eMBB", "URLLC", "mMTC">>>>,
    <<"IoT",
      <<"IoT", "VoIP", "Wi-Fi">>>>
>>

----------------------------------------------------------------------------
(* The acronym routes: GET /api/acronyms/<acronym> of enhanced_app_v2 and of
   flask_app_with_tooltips, and the related and search routes that
   AdvancedTooltipManager adds to enhanced_app_v2 *)

\* the first category whose list holds the acronym (for ... break): a sequence
\* with that category's name, empty when no list holds it
RECURSIVE FirstCategoryFrom(_, _, _)
FirstCategoryFrom(categories, i, acronym) ==
    IF i > Len(categories) THEN <<>>
    ELSE IF InList(acronym, categories[i][2]) THEN <<categories[i][1]>>
         ELSE FirstCategoryFrom(categories, i + 1, acronym)

FirstCategory(categories, acronym) == FirstCategoryFrom(categories, 1, acronym)

\* get_acronym(acronym), the same code in both applications
GetAcronym(items, categories, requested) ==
    LET acronym == Upper(requested)
    IN  IF acronym \in DictKeys(items)
        THEN [op |-> "get_acronym", status |-> 200, success |-> TRUE,
              acronym |-> acronym, definition |-> DictGet(items, acronym),
              category |-> FirstCategory(categories, acronym), error |-> ""]
        ELSE [op |-> "get_acronym", status |-> 404, success |-> FALSE,
              acronym |-> "", definition |-> "", category |-> <<>>,
              error |-> "Acronym not found"]

\* AdvancedTooltipManager.get_semantic_relations
get_semantic_relations == <<
    <<"5G", <<"6G", "NR", "mmWave", "Sub-6", "eMBB", "URLLC", "mMTC", "gNB">>>>,
    <<"6G", <<"5G", "THz", "AI", "ML", "Holographic">>>>,
    <<"MIMO", <<"SU-MIMO", "MU-MIMO", "Massive MIMO", "Beamforming">>>>,
    <<"AMF", <<"SMF", "UPF", "5GC", "AUSF", "UDM", "PCF">>>>,
    <<"BPSK", <<"QPSK", "QAM", "16-QAM", "64-QAM", "Modulation">>>>,
    <<"TCP", <<"UDP", "IP", "HTTP", "HTTPS", "Protocol">>>>,
    <<"IoT", <<"IIoT", "M2M", "WSN", "LoRa", "NB-IoT", "LTE-M">>>>,
    <<"SSL", <<"TLS", "HTTPS", "PKI", "Certificate", "Encryption">>>>,
    <<"Wi-Fi", <<"802.11", "WLAN", "Access Point", "SSID">>>>,
    <<"VoIP", <<"SIP", "RTP", "H.323", "Voice", "Telephony">>>>
>>

\* the category-based entries: the first five of the category, the queried
\* acronym left out
RECURSIVE CategoryRelated(_, _, _, _)
CategoryRelated(list, i, acronym, category) ==
    IF i > Len(list) THEN <<>>
    ELSE (IF list[i] # acronym
          THEN <<[acronym |-> list[i],
                  definition |-> DictGet(V2AcronymItems, list[i]),
                  category |-> category, relation_type |-> "category"]>>
          ELSE <<>>) \o CategoryRelated(list, i + 1, acronym, category)

\* the semantic entries: the first three relations that are in the database
RECURSIVE SemanticRelated(_, _)
SemanticRelated(list, i) ==
    IF i > Len(list) THEN <<>>
    ELSE (IF list[i] \in DictKeys(V2AcronymItems)
          THEN LET cat == FirstCategory(V2Categories, list[i])
               IN  <<[acronym |-> list[i],
                      definition |-> DictGet(V2AcronymItems, list[i]),
                      category |-> IF cat = <<>> THEN "General" ELSE cat[1],
                      relation_type |-> "semantic"]>>
          ELSE <<>>) \o SemanticRelated(list, i + 1)

RelatedFailed ==
    [op |-> "related", status |-> 500, success |-> FALSE, acronym |-> "",
     related |-> <<>>, error |-> "Failed to get related acronyms"]

\* get_related_acronyms(acronym)
get_related_acronyms(acronym) ==
    IF acronym \notin DictKeys(V2AcronymItems)
    THEN [op |-> "related", status |-> 404, success |-> FALSE, acronym |-> "",
          related |-> <<>>, error |-> "Acronym not found"]
    ELSE
    LET user_category == FirstCategory(V2Categories, acronym)
        category_acronyms ==
            IF user_category = <<>> THEN <<>>
            ELSE Slice(DictGet(V2Categories, user_category[1]), 5)
        \* acronym_data['acronyms'][related_acronym] raises KeyError
        key_error == \E i \in DOMAIN category_acronyms :
                        /\ category_acronyms[i] # acronym
                        /\ category_acronyms[i] \notin DictKeys(V2AcronymItems)
        semantic == IF acronym \in DictKeys(get_semantic_relations)
                    THEN Slice(DictGet(get_semantic_relations, acronym), 3)
                    ELSE <<>>
    IN  IF key_error THEN RelatedFailed
        ELSE LET related ==
                     CategoryRelated(category_acronyms, 1, acronym,
                                     IF user_category = <<>> THEN ""
                                     ELSE user_category[1])
                     \o SemanticRelated(semantic, 1)
             IN  [op |-> "related", status |-> 200, success |-> TRUE,
                  acronym |-> acronym, related |-> Slice(related, 6), error |-> ""]

\* category_lookup.get(acronym, 'General'): the lookup is filled category by
\* category, a later category overwriting an earlier one
RECURSIVE CategoryLookupFrom(_, _, _)
CategoryLookupFrom(categories, i, acronym) ==
    IF i = 0 THEN "General"
    ELSE IF InList(acronym, categories[i][2]) THEN categories[i][1]
         ELSE CategoryLookupFrom(categories, i - 1, acronym)

CategoryLookup(acronym) == CategoryLookupFrom(V2Categories, Len(V2Categories), acronym)

\* sum(1 for word in query_words if any(word in def_word for def_word in words))
WordMatches(query_words, words) ==
    Cardinality({i \in DOMAIN query_words :
                    \E j \in DOMAIN words : IsIn(query_words[i], words[j])})

\* the keys of acronym_data['acronyms'] as acronyms.items() goes through them
V2AcronymKeys == DictOrder(V2AcronymItems)

\* acronym.lower() and definition.lower() of every entry of the database
V2Lowered ==
    [a \in DictKeys(V2AcronymItems) |->
        [acronym |-> Lower(a), definition |-> Lower(DictGet(V2AcronymItems, a))]]

\* the score smart_search gives to one entry
SearchScore(query, acronym) ==
    IF query = V2Lowered[acronym].acronym THEN 100
    ELSE IF IsIn(query, V2Lowered[acronym].acronym) THEN 80
    ELSE IF StartsWith(V2Lowered[acronym].acronym, query) THEN 70
    ELSE IF IsIn(query, V2Lowered[acronym].definition)
         THEN Min(60, WordMatches(Split(query),
                                  Split(V2Lowered[acronym].definition)) * 20)
         ELSE 0

\* the entries with score > 0, in the iteration order of the dict
SearchCandidates(query, keys) ==
    LET scored == [i \in DOMAIN keys |->
                      [acronym |-> keys[i],
                       definition |-> DictGet(V2AcronymItems, keys[i]),
                       category |-> CategoryLookup(keys[i]),
                       score |-> SearchScore(query, keys[i])]]
    IN  Picked(scored, {i \in DOMAIN keys : scored[i].score > 0})

\* a ranking that leaves the results in the order they were found
RankAsFound(results, i) == i

\* the place sorted(..., reverse=True) gives to results[i]: behind every result
\* of a higher score and behind the earlier results of the same score
RankByScore(results, i) ==
    1 + Cardinality({j \in DOMAIN results : results[j].score > results[i].score})
      + Cardinality({j \in 1..(i - 1) : results[j].score = results[i].score})

\* sorted(results, key=lambda x: x['score'], reverse=True): stable
SortedByScore(results) ==
    [n \in 1..Len(results) |->
        results[CHOOSE i \in DOMAIN results : RankByScore(results, i) = n]]

NoJson == [body |-> FALSE, query |-> "", max_results |-> 0]

SearchFailed ==
    [op |-> "search", status |-> 500, success |-> FALSE, query |-> "",
     results |-> <<>>, total_found |-> 0, error |-> "Search failed"]

\* smart_search() without the logging: the answer to the request body data
smart_search(data) ==
    IF ~data.body THEN SearchFailed
    ELSE
    LET query == Lower(Strip(data.query))
    IN  IF Len(query) < 2
        THEN [op |-> "search", status |-> 400, success |-> FALSE, query |-> "",
              results |-> <<>>, total_found |-> 0,
              error |-> "Query must be at least 2 characters"]
        ELSE LET found == SearchCandidates(query, V2AcronymKeys)
                 results == Slice(SortedByScore(found), data.max_results)
             IN  [op |-> "search", status |-> 200, success |-> TRUE, query |-> query,
                  results |-> results, total_found |-> Len(results), error |-> ""]

\* log_search_query(query), called once the query has passed the length check
log_search_query(log, data) ==
    IF data.body /\ Len(Lower(Strip(data.query))) >= 2
    THEN Append(log, Lower(Strip(data.query)))
    ELSE log

----------------------------------------------------------------------------
(* The table custom_acronyms of tooltip_analytics.db, written by
   POST /api/tooltips/custom and by TooltipSystemManager.import_acronyms *)

\* JSON null (Python None), and a JSON array or object
NullV == [t |-> "null", v |-> ""]
ListV == [t |-> "list", v |-> ""]

\* INSERT OR REPLACE: an existing row of the acronym gives way to the new one
SqlInsertOrReplace(table, row) ==
    IF \E f \in {"acronym", "definition", "category", "priority"} : row[f].t = "list"
    THEN [outcome |-> "bind_error", table |-> table]
    ELSE IF row.acronym.t = "null" \/ row.definition.t = "null"
         THEN [outcome |-> "integrity_error", table |-> table]
         ELSE [outcome |-> "ok",
               table |-> Append(SelectSeq(table, LAMBDA r : r.acronym # row.acronym),
                                row)]

\* INSERT INTO custom_acronyms under the table's constraints: acronym TEXT UNIQUE
\* NOT NULL, definition TEXT NOT NULL; a value sqlite3 cannot bind is an error
\* of another class, raised before the statement runs
SqlInsert(table, row) ==
    IF \E f \in {"acronym", "definition", "category", "priority"} : row[f].t = "list"
    THEN [outcome |-> "bind_error", table |-> table]
    ELSE IF \/ row.acronym.t = "null"
            \/ row.definition.t = "null"
            \/ \E i \in DOMAIN table : table[i].acronym = row.acronym
         THEN [outcome |-> "integrity_error", table |-> table]
         ELSE [outcome |-> "ok", table |-> Append(table, row)]

CustomFailed(table) ==
    [table |-> table,
     resp |-> [op |-> "post_custom", status |-> 500, success |-> FALSE,
               error |-> "Failed to add custom acronym"]]

\* add_custom_acronym(): the table afterwards and the answer
add_custom_acronym(table, data) ==
    IF ~data.body THEN CustomFailed(table)
    ELSE
    LET acronym_raw == GetOr(data.acronym, StrV(""))
        definition_raw == GetOr(data.definition, StrV(""))
        category == GetOr(data.category, StrV("Custom"))
        priority == GetOr(data.priority, StrV("medium"))
    IN  \* .strip() of a value that is not a str raises AttributeError
        IF acronym_raw.t # "str" \/ definition_raw.t # "str" THEN CustomFailed(table)
        ELSE
        LET acronym == Upper(Strip(acronym_raw.v))
            definition == Strip(definition_raw.v)
        IN  IF acronym = "" \/ definition = ""
            THEN [table |-> table,
                  resp |-> [op |-> "post_custom", status |-> 400, success |-> FALSE,
                            error |-> "Acronym and definition are required"]]
            ELSE
            LET ins == SqlInsert(table, [acronym |-> StrV(acronym),
                                         definition |-> StrV(definition),
                                         category |-> category,
                                         priority |-> priority])
            IN  CASE ins.outcome = "ok" ->
                       [table |-> ins.table,
                        resp |-> [op |-> "post_custom", status |-> 200,
                                  success |-> TRUE, error |-> ""]]
                  [] ins.outcome = "integrity_error" ->
                       [table |-> table,
                        resp |-> [op |-> "post_custom", status |-> 400,
                                  success |-> FALSE,
                                  error |-> "Acronym already exists"]]
                  [] OTHER -> CustomFailed(table)

\* the loop of import_acronyms over the entries of a .json file: the table in
\* the open transaction and the two counters; failed is set by an exception
\* other than IntegrityError, which ends the loop
RECURSIVE ImportJsonLoop(_, _, _)
ImportJsonLoop(st, entries, i) ==
    IF i > Len(entries) \/ st.failed THEN st
    ELSE LET ins == SqlInsert(st.table, [acronym |-> StrV(entries[i][1]),
                                         definition |-> entries[i][2],
                                         category |-> StrV("Imported"),
                                         priority |-> StrV("medium")])
         IN  ImportJsonLoop(
                 CASE ins.outcome = "ok" ->
                        [st EXCEPT !.table = ins.table, !.imported = @ + 1]
                   [] ins.outcome = "integrity_error" ->
                        [st EXCEPT !.skipped = @ + 1]
                   [] OTHER -> [st EXCEPT !.failed = TRUE],
                 entries, i + 1)

\* the loop over the rows of a .csv file
RECURSIVE ImportCsvLoop(_, _, _)
ImportCsvLoop(st, rows, i) ==
    IF i > Len(rows) \/ st.failed THEN st
    ELSE
    LET row == rows[i]
        category_raw == GetOr(row.category, StrV("Imported"))
    IN  \* a short row has None in the missing columns: .strip() raises
        IF row.acronym.t # "str" \/ row.definition.t # "str" \/ category_raw.t # "str"
        THEN [st EXCEPT !.failed = TRUE]
        ELSE
        LET acronym == Upper(Strip(row.acronym.v))
            definition == Strip(row.definition.v)
            category == Strip(category_raw.v)
        IN  IF acronym = "" \/ definition = ""
            THEN ImportCsvLoop(st, rows, i + 1)
            ELSE
            LET ins == SqlInsert(st.table, [acronym |-> StrV(acronym),
                                            definition |-> StrV(definition),
                                            category |-> StrV(category),
                                            priority |-> StrV("medium")])
            IN  ImportCsvLoop(
                    CASE ins.outcome = "ok" ->
                           [st EXCEPT !.table = ins.table, !.imported = @ + 1]
                      [] ins.outcome = "integrity_error" ->
                           [st EXCEPT !.skipped = @ + 1]
                      [] OTHER -> [st EXCEPT !.failed = TRUE],
                    rows, i + 1)

\* import_acronyms(file_path): conn.commit() is reached only when no exception
\* left the loop; closing the connection without it rolls the inserts back
import_acronyms(table, file) ==
    LET start == [table |-> table, imported |-> 0, skipped |-> 0, failed |-> FALSE]
        done == IF file.kind = "json" THEN ImportJsonLoop(start, file.entries, 1)
                ELSE ImportCsvLoop(start, file.entries, 1)
    IN  IF done.failed
        THEN [table |-> table,
              resp |-> [op |-> "import", kind |-> file.kind, success |-> FALSE,
                        imported |-> 0, skipped |-> 0]]
        ELSE [table |-> done.table,
              resp |-> [op |-> "import", kind |-> file.kind, success |-> TRUE,
                        imported |-> done.imported, skipped |-> done.skipped]]

----------------------------------------------------------------------------
(* fix_topology_animations.py *)

SCRIPT_PATH == "/static/js/topology_animations.js"
script_tag == "    <script src=\"/static/js/topology_animations.js\"></script>\n"

\* a replacement that inserts the tag without looking for a reference first
FixAlwaysInserting(f) ==
    IF ~f.html_exists \/ ~f.js_exists
    THEN [result |-> FALSE, wrote |-> FALSE, found |-> FALSE, files |-> f]
    ELSE IF IsIn("</body>", f.html)
         THEN [result |-> TRUE, wrote |-> TRUE, found |-> FALSE,
               files |-> [f EXCEPT !.html = Replace(@, "</body>",
                                                    script_tag \o "</body>")]]
         ELSE [result |-> FALSE, wrote |-> FALSE, found |-> FALSE, files |-> f]

\* fix_topology_animations(): what it returns, whether it wrote the file, whether
\* it found the reference present, and the files afterwards
fix_topology_animations(f) ==
    IF ~f.html_exists \/ ~f.js_exists
    THEN [result |-> FALSE, wrote |-> FALSE, found |-> FALSE, files |-> f]
    ELSE IF IsIn(SCRIPT_PATH, f.html)
         THEN [result |-> TRUE, wrote |-> FALSE, found |-> TRUE, files |-> f]
         ELSE IF IsIn("</body>", f.html)
              THEN [result |-> TRUE, wrote |-> TRUE, found |-> FALSE,
                    files |-> [f EXCEPT !.html = Replace(@, "</body>",
                                                         script_tag \o "</body>")]]
              ELSE [result |-> FALSE, wrote |-> FALSE, found |-> FALSE, files |-> f]

----------------------------------------------------------------------------
(* The custom_acronyms table under any sequence of POST /api/tooltips/custom
   requests and import_acronyms runs *)

\* the longest import file
MaxFileEntries == 2

NoCustomJson == [body |-> FALSE, acronym |-> AbsentStr, definition |-> AbsentStr,
                 category |-> AbsentStr, priority |-> AbsentStr]

CustomPosts ==
    {NoCustomJson} \cup
    {[body |-> TRUE, acronym |-> a, definition |-> d, category |-> cp[1],
      priority |-> cp[2]] :
        a \in {AbsentStr, StrV(" embb "), StrV("5G")},
        d \in {StrV(""), StrV(" Fifth Generation "), NullV},
        cp \in {<<AbsentStr, AbsentStr>>, <<StrV("Service Categories"), StrV("high")>>}}

\* sequences of at most n elements of S
SeqsUpTo(S, n) == UNION {[1..k -> S] : k \in 0..n}

\* the entries of the object a .json file holds (its keys are distinct)
JsonFiles ==
    {[kind |-> "json", entries |-> e] :
        e \in {s \in SeqsUpTo({"eMBB", "5G"} \X
                              {StrV("Other"), NullV, ListV}, MaxFileEntries) :
                  \A i, j \in DOMAIN s : i # j => s[i][1] # s[j][1]}}

CsvRows ==
    {[acronym |-> StrV(" embb"), definition |-> StrV("Enhanced Mobile Broadband "),
      category |-> AbsentStr],
     [acronym |-> StrV("5g"), definition |-> StrV("Other"),
      category |-> StrV(" Service Categories ")],
     [acronym |-> StrV(""), definition |-> StrV("Other"), category |-> AbsentStr],
     [acronym |-> StrV("5g"), definition |-> NullV, category |-> NullV]}

CsvFiles == {[kind |-> "csv", entries |-> e] : e \in SeqsUpTo(CsvRows, MaxFileEntries)}

InitCustom ==
    /\ app = "v2"
    /\ rng = [seed |-> SEED, pos |-> 0]
    /\ InitWeb
    /\ InitMapIdle
    /\ InitToolsIdle

customFrame == <<webVars, labVars, thr, mapVars, searchLog, tresp, files, fix>>

\* POST /api/tooltips/custom
PostCustom ==
    /\ \E data \in CustomPosts :
          \E out \in {add_custom_acronym(custom, data)} :
              /\ custom' = out.table
              /\ cresp' = [op |-> "post_custom", req |-> data, before |-> custom,
                           resp |-> out.resp]
    /\ UNCHANGED customFrame

\* tooltip_manager.py import of a .json file
ImportJson ==
    /\ \E file \in JsonFiles :
          \E out \in {import_acronyms(custom, file)} :
              /\ custom' = out.table
              /\ cresp' = [op |-> "import", req |-> file, before |-> custom,
                           resp |-> out.resp]
    /\ UNCHANGED customFrame

\* tooltip_manager.py import of a .csv file
ImportCsv ==
    /\ \E file \in CsvFiles :
          \E out \in {import_acronyms(custom, file)} :
              /\ custom' = out.table
              /\ cresp' = [op |-> "import", req |-> file, before |-> custom,
                           resp |-> out.resp]
    /\ UNCHANGED customFrame

NextCustom == PostCustom \/ ImportJson \/ ImportCsv

SpecCustom == InitCustom /\ [][NextCustom]_vars

----------------------------------------------------------------------------
(* The acronym lookups, one request after another *)

\* the longest search_queries log
MaxSearchLog == 1

V2AcronymInputs == DictKeys(V2AcronymItems) \cup {"embb", "EMBB", "zzz"}
TooltipsAcronymInputs == DictKeys(TooltipsAcronymItems) \cup {"embb", "EMBB", "zzz"}
RelatedInputs == DictKeys(V2AcronymItems) \cup {"gNB", "TCP", "5g"}

SearchRequests ==
    {NoJson} \cup
    {[body |-> TRUE, query |-> q, max_results |-> m] :
        q \in {"5g", " QAM ", "radio access network", "of t", "zzz", "n", "   "},
        m \in {0, 1, 3, 10}}

\* the answers of the search route, request by request
SearchAnswers == [data \in SearchRequests |-> smart_search(data)]

\* the answers of the related route
RelatedAnswers == [a \in RelatedInputs |-> get_related_acronyms(a)]

\* the answers of GET /api/acronyms/<acronym> in the two applications
V2AcronymAnswers ==
    [a \in V2AcronymInputs |-> GetAcronym(V2AcronymItems, V2Categories, a)]
TooltipsAcronymAnswers ==
    [a \in TooltipsAcronymInputs |->
        GetAcronym(TooltipsAcronymItems, TooltipsCategories, a)]

InitLookup ==
    /\ app \in {"v2", "tooltips"}
    /\ rng = [seed |-> SEED, pos |-> 0]
    /\ InitWeb
    /\ InitMapIdle
    /\ InitToolsIdle

lookupFrame == <<webVars, labVars, thr, mapVars, custom, cresp, files, fix>>

\* enhanced_app_v2: GET /api/acronyms/<acronym>
V2GetAcronym ==
    /\ app = "v2"
    /\ \E a \in V2AcronymInputs :
          tresp' = [op |-> "get_acronym", req |-> a,
                    resp |-> V2AcronymAnswers[a]]
    /\ UNCHANGED <<lookupFrame, searchLog>>

\* flask_app_with_tooltips: GET /api/acronyms/<acronym>
TooltipsGetAcronym ==
    /\ app = "tooltips"
    /\ \E a \in TooltipsAcronymInputs :
          tresp' = [op |-> "get_acronym", req |-> a,
                    resp |-> TooltipsAcronymAnswers[a]]
    /\ UNCHANGED <<lookupFrame, searchLog>>

\* GET /api/tooltips/related/<acronym>
RelatedAcronyms ==
    /\ app = "v2"
    /\ \E a \in RelatedInputs :
          tresp' = [op |-> "related", req |-> a, resp |-> RelatedAnswers[a]]
    /\ UNCHANGED <<lookupFrame, searchLog>>

\* POST /api/tooltips/search
SmartSearch ==
    /\ app = "v2"
    /\ Len(searchLog) < MaxSearchLog
    /\ \E data \in SearchRequests :
          /\ searchLog' = log_search_query(searchLog, data)
          /\ tresp' = [op |-> "search", req |-> data, resp |-> SearchAnswers[data]]
    /\ UNCHANGED lookupFrame

NextLookup == V2GetAcronym \/ TooltipsGetAcronym \/ RelatedAcronyms \/ SmartSearch

SpecLookup == InitLookup /\ [][NextLookup]_vars

----------------------------------------------------------------------------
(* Runs of fix_topology_animations.py on a templates/index.html *)

\* the number of pieces an index.html is put together from
MaxHtmlParts == 3
\* the number of runs of the script
MaxFixRuns == 3

HtmlParts == {"<body>", "</body>", "</BODY>", "<p>Mesh</p>", script_tag}

RECURSIVE Concat(_)
Concat(parts) == IF parts = <<>> THEN "" ELSE Head(parts) \o Concat(Tail(parts))

HtmlContents == {Concat(parts) : parts \in SeqsUpTo(HtmlParts, MaxHtmlParts)}

InitFix ==
    /\ app = "v2"
    /\ rng = [seed |-> SEED, pos |-> 0]
    /\ InitWeb
    /\ InitMapIdle
    /\ custom = <<>>
    /\ cresp = NoOutcome
    /\ searchLog = <<>>
    /\ tresp = NoOutcome
    /\ \E e, j \in BOOLEAN :
          files \in {[html_exists |-> e, html |-> IF e THEN c ELSE "", js_exists |-> j] :
                        c \in HtmlContents}
    /\ fix = [NoFix EXCEPT !.initial = files.html]

\* python fix_topology_animations.py, once more
RunFix ==
    /\ fix.runs < MaxFixRuns
    /\ \E out \in {fix_topology_animations(files)} :
          /\ files' = out.files
          /\ fix' = [runs |-> fix.runs + 1, result |-> out.result, wrote |-> out.wrote,
                     found |-> out.found, initial |-> fix.initial,
                     first |-> IF fix.runs = 0 THEN out.files.html ELSE fix.first]
    /\ UNCHANGED <<webVars, labVars, thr, mapVars, custom, cresp, searchLog, tresp>>

NextFix == RunFix

SpecFix == InitFix /\ [][NextFix]_vars

----------------------------------------------------------------------------
(* Properties of the web signal generation (checked under Spec) *)

Generated == lastOp = "generate_signals"

\* the answer a freshly started flask_telecom_server gives to a request
FreshServerResponse(req, g0) == ServerGenerateSignalsRoute(InitLab, g0, req).resp

\* C1: in flask_telecom_server the result of POST /generate_signals is determined
\* by the request's own {num_bits, modulation, noise_level}: whatever requests were
\* served before, the answer is the one a fresh server gives to the same request.
C1_ResultFromRequestAlone ==
    (app = "server" /\ Generated) =>
        \A s \in EntropySeeds :
            LET fresh == FreshServerResponse(lastReq, [seed |-> s, pos |-> 0])
            IN  /\ resp.success = fresh.success
                /\ resp.result = fresh.result

\* C2: two sequential runs of signal generation with identical parameters
\* (num_bits >= 1, modulation in {BPSK, QPSK, 16-QAM}, noise_level > 0) yield the
\* identical bit sequence, modulated waveform and noise realization.
C2_RepeatedRunIdentical ==
    repeated =>
        /\ resp.success /\ before.resp.success
        /\ before.resp.result.bits = resp.result.bits
        /\ before.run.modulated = run.modulated
        /\ before.run.noise = run.noise

\* a well-formed 16-QAM request with odd num_bits has been answered twice in a
\* row by the shared lab object, with noise drawn
C2_Witness ==
    /\ repeated
    /\ app = "server"
    /\ lastReq.modulation.v = "16-QAM"
    /\ Len(resp.result.bits) >= 1
    /\ run.noise.len > 0
    /\ before.resp.success

\* C3: for every modulation of the closed set {BPSK, QPSK, 16-QAM, 64-QAM} and
\* every num_bits >= 1, a /generate_signals request succeeds and returns a result.
C3_ClosedSetAccepted ==
    (/\ Generated
     /\ lastReq.body
     /\ lastReq.num_bits.t = "int" /\ lastReq.num_bits.v >= 1
     /\ lastReq.modulation.v \in ClosedSet)
    => (resp.success /\ resp.result.present)

\* C4: a request naming a modulation scheme outside the closed set fails: neither
\* /generate_signals nor /constellation/<modulation> answers success = true.
C4_UnsupportedSchemeFails ==
    (/\ lastOp \in {"generate_signals", "constellation"}
     /\ lastReq.body
     /\ lastReq.modulation.v \notin ClosedSet)
    => ~resp.success

\* C5: a signal-generation request with num_bits <= 0 is rejected: it returns
\* neither success nor a bit sequence.
C5_NonPositiveBitsRejected ==
    (/\ Generated
     /\ lastReq.body
     /\ lastReq.num_bits.t = "int" /\ lastReq.num_bits.v <= 0)
    => (~resp.success /\ ~resp.result.present)

\* parameters the HTTP layer should refuse: no JSON body, a num_bits that is not
\* a positive integer, a modulation outside the closed set
Malformed(req) ==
    \/ ~req.body
    \/ req.num_bits.t # "int"
    \/ req.num_bits.v <= 0
    \/ req.modulation.v \notin ClosedSet

\* C6: the failure response to a /generate_signals request with malformed
\* parameters carries a 4xx status; 5xx is kept for internal computation failures.
C6_MalformedIs4xx ==
    (Generated /\ Malformed(lastReq) /\ ~resp.success)
    => (resp.status >= 400 /\ resp.status <= 499)

\* C7: whenever the realized noise has variance exactly 0, the reported snr_db is
\* +infinity.
C7_ZeroNoiseVarianceIsInfinite ==
    (Generated /\ resp.success /\ VarIsZero(run.noise))
    => resp.result.snr_db = "inf"

\* bits per symbol of a scheme
BitsPerSymbol(m) == CASE m = "BPSK" -> 1 [] m = "QPSK" -> 2 [] m = "16-QAM" -> 4
                      [] OTHER -> 6

\* C8: for num_bits N >= 1 and a modulation with k bits per symbol, the symbol
\* sequence has ceil(N / k) symbols and `samples` is ceil(N / k) * samples_per_symbol.
C8_SymbolAndSampleCount ==
    (/\ Generated
     /\ resp.success
     /\ lastReq.num_bits.t = "int" /\ lastReq.num_bits.v >= 1
     /\ lastReq.modulation.v \in {"BPSK", "QPSK", "16-QAM"})
    => LET k == BitsPerSymbol(lastReq.modulation.v)
           n == lastReq.num_bits.v
       IN  /\ run.symbols = CeilDiv(n, k)
           /\ resp.result.samples = CeilDiv(n, k) * run.sps

----------------------------------------------------------------------------
(* Properties of the BPSK chain of app.py and of the BER curves (checked under Spec) *)

\* C13: with noise power 0, for BPSK the sign of every demodulated sample
\* (received signal times the same cosine carrier) is the sign of the transmitted
\* symbol 2 * bit - 1 of the bit the sample belongs to, so the N bits are
\* recovered bit for bit from the demodulated signal.
C13_NoiselessBpskRoundTrip ==
    (app = "app" /\ tlab.runs > 0 /\ tlab.noise.scale.m = 0) =>
        /\ Len(tlab.demod) = tlab.N * tlab.sps
        /\ \A k \in 1..Len(tlab.demod) :
               DemodSign(tlab.demod[k]) = {2 * tlab.bits[((k - 1) \div tlab.sps) + 1] - 1}

\* the 20 bits of a noiseless run hold zeros and ones, and all 200 samples are there
C13_Witness ==
    /\ app = "app"
    /\ tlab.runs > 0
    /\ tlab.noise.scale = Zero
    /\ Len(tlab.bits) = LAB_N
    /\ \E i, j \in 1..Len(tlab.bits) : tlab.bits[i] = 0 /\ tlab.bits[j] = 1
    /\ Len(tlab.demod) = LAB_N * LAB_SPS

\* C14: for every modulation scheme and every performance-analysis function, the
\* theoretical BER sequence is non-increasing along the increasing SNR grid.
C14_BerNonIncreasing ==
    \A c \in perf.curves :
        \A k \in 1..(Len(c.ber) - 1) : BerLeq(c.ber[k + 1], c.ber[k])

\* the exponential 16-QAM curve of enhanced_app_v2 has been computed over its 21
\* grid points and falls strictly from the first point to the last
C14_Witness ==
    /\ perf.impl = "enhanced_app_v2"
    /\ \E c \in perf.curves :
          /\ c.scheme = "16-QAM"
          /\ Len(c.ber) = c.grid.num
          /\ ~BerLeq(c.ber[1], c.ber[Len(c.ber)])

C19_PlottedBerAtLeastFloor ==
    \A c \in perf.curves :
        \A k \in 1..Len(c.plotted) : BerLeq(BerV(BER_FLOOR_LEVEL), c.plotted[k])

\* the square of a decimal float
DecSquare(x) == Dec(x.m * x.m, 2 * x.e)

\* equality of decimal floats (the mantissas in use are no multiples of ten)
DecEq(x, y) == (x.m = 0 /\ y.m = 0) \/ x = y

\* C20: the channel noise added to the transmitted signal is a unit-variance
\* Gaussian draw multiplied by sqrt(noise_power): the configured noise_power is
\* the variance of the noise, not its standard deviation.
C20_NoisePowerIsVariance ==
    /\ (Generated /\ resp.success /\ run.noise.len > 0) =>
           DecEq(DecSquare(run.noise.scale),
                 IF app = "server" THEN lab.noise_power ELSE lastReq.noise_level.v)
    /\ (app = "app" /\ lastOp = "generate_signal_data") =>
           DecEq(DecSquare(tlab.noise.scale), tlab.noise_power)

\* C21: signal generation is rejected before any computation whenever the
\* configured carrier frequency fc and sampling frequency fs satisfy fc >= fs/2:
\* no lab object generates a signal while holding such parameters, its own
\* defaults included.
C21_NyquistViolationRejected ==
    (app = "server" /\ Generated /\ 2 * lab.fc >= lab.fs) =>
        (~resp.success /\ ~run.ran)

\* C22: TelecomLabAutomation.generate_signal_data is reproducible: a run with
\* the same parameters (N, sps, fc, noise_power) as the run before it produces
\* the identical bit sequence, the bit source being explicitly seeded.
C22_SameParametersSameBits ==
    [][(/\ app = "app"
        /\ lastOp' = "generate_signal_data"
        /\ tlab.runs >= 1
        /\ tlab'.N = tlab.N /\ tlab'.sps = tlab.sps /\ tlab'.fc = tlab.fc
        /\ tlab'.noise_power = tlab.noise_power) =>
          tlab'.bits = tlab.bits]_vars

\* C23: if WebTelecomLab.generate_signals fails, the shared lab state N,
\* modulation, noise_power and signal_df is the same as before the call, so
\* /api/lab_status still reports the parameters of the last successful run.
C23_FailedCallKeepsLabState ==
    [][(app = "server" /\ lastOp' = "generate_signals" /\ ~resp'.success) =>
          (/\ lab'.N = lab.N
           /\ lab'.modulation = lab.modulation
           /\ lab'.noise_power = lab.noise_power
           /\ lab'.signal_df = lab.signal_df)]_vars

----------------------------------------------------------------------------
(* Properties of the 16-QAM mappers (checked under SpecMapper) *)

Abs(x) == IF x < 0 THEN -x ELSE x

\* lattice neighbours: one coordinate equal, the other 2 apart
Adjacent(p, q) ==
    \/ (p[1] = q[1] /\ Abs(p[2] - q[2]) = 2)
    \/ (p[2] = q[2] /\ Abs(p[1] - q[1]) = 2)

\* number of positions in which two bit groups differ
Hamming(a, b) == Cardinality({j \in 1..Len(a) : a[j] # b[j]})

\* the g-th group of 4 of the bit sequence extended with zeros
MappedGroup(g) == Group(PadRight(mbits, (4 - (Len(mbits) % 4)) % 4), 4, g)

\* any two symbols of the output that are lattice neighbours come from bit groups
\* one bit apart
GrayOnOutput ==
    \A g, h \in 1..Len(msyms) :
        Adjacent(msyms[g], msyms[h]) => Hamming(MappedGroup(g), MappedGroup(h)) = 1

\* C9: in the table gray_16qam every pair of lattice-adjacent constellation points
\* carries 4-bit labels that differ in exactly one bit position.
C9_GrayTableAdjacentOneBit == (mwhich = "gray_16qam") => GrayOnOutput

\* two groups have been looked up in gray_16qam and landed on neighbouring points
C9_Witness ==
    /\ mwhich = "gray_16qam"
    /\ Len(msyms) = 2
    /\ Adjacent(msyms[1], msyms[2])
    /\ MappedGroup(1) = <<0, 1, 1, 1>>
    /\ MappedGroup(2) = <<1, 1, 1, 1>>

\* C10: the arithmetic 16-QAM mapping of WebTelecomLab.generate_signals is
\* Gray-coded: bit groups mapped to nearest-neighbour lattice points differ in
\* exactly one bit position.
C10_ArithMappingGray == (mwhich = "arith16") => GrayOnOutput

QpskMappers == {"enhanced_qpsk", "server_qpsk"}
Qam16Mappers == {"gray_16qam", "arith16"}

\* I^2 + Q^2 of a constellation point, in the units of the numbers the mapper
\* hands to np.repeat
Energy(p) == p[1] * p[1] + p[2] * p[2]

\* C11: every QPSK symbol the mapper produces from a bit pair carries the
\* 1/sqrt(2) normalization: I^2 + Q^2 = 1 for each symbol (and so the average
\* symbol energy of any bit sequence is 1.0).
C11_QpskUnitEnergy ==
    (mwhich \in QpskMappers) => \A g \in 1..Len(msyms) : Energy(msyms[g]) = 1

Lattice16 == {<<i, q>> : i \in {-3, -1, 1, 3}, q \in {-3, -1, 1, 3}}

Groups4 == [1..4 -> {0, 1}]

\* the point a 16-QAM mapper gives to one group of 4 bits
Point16(which, b) == IF which = "gray_16qam" THEN gray_16qam(<<b[1], b[2], b[3], b[4]>>)
                     ELSE Arith16(b)

RECURSIVE EnergySum(_, _)
EnergySum(which, S) ==
    IF S = {} THEN 0
    ELSE LET b == CHOOSE x \in S : TRUE
         IN  Energy(Point16(which, b)) + EnergySum(which, S \ {b})

\* C12: each 16-QAM mapper (the gray_16qam table, the arithmetic mapping) sends
\* the 16 possible 4-bit groups one-to-one onto the 16 points of
\* {-3,-1,1,3} x {-3,-1,1,3}, so the average of I^2 + Q^2 over the 16 groups is 10.
C12_Qam16OntoLatticeEnergy10 ==
    (mwhich \in Qam16Mappers) =>
        /\ \A g \in 1..Len(msyms) : msyms[g] \in Lattice16
        /\ \A g, h \in 1..Len(msyms) :
               (MappedGroup(g) # MappedGroup(h)) => (msyms[g] # msyms[h])
        /\ {Point16(mwhich, b) : b \in Groups4} = Lattice16
        /\ EnergySum(mwhich, Groups4) = 10 * Cardinality(Groups4)

\* the arithmetic mapping has sent two different groups of one sequence to two
\* different lattice points
C12_Witness ==
    /\ mwhich = "arith16"
    /\ Len(mbits) = 8
    /\ MappedGroup(1) = <<0, 1, 1, 0>>
    /\ MappedGroup(2) = <<1, 0, 0, 1>>
    /\ msyms = <<<<1, -1>>, <<-1, 1>>>>

\* bits per symbol of the mapper under test
MapperK == IF mwhich \in QpskMappers THEN 2 ELSE 4

\* bit j (counted from 1) of the original sequence extended with zeros
ExtendedBit(j) == IF j <= Len(mbits) THEN mbits[j] ELSE 0

\* the bits at positions (g-1)*k + 1 .. g*k of the extended sequence
ExpectedGroup(k, g) == [j \in 1..k |-> ExtendedBit((g - 1) * k + j)]

\* the point the scheme assigns to a group: for QPSK I from the first bit of the
\* pair and Q from the second, for 16-QAM the mapper's own (one-to-one) table
PointOfGroup(which, b) ==
    IF which \in QpskMappers THEN <<2 * b[1] - 1, 2 * b[2] - 1>> ELSE Point16(which, b)

\* C18: for QPSK (k = 2) and 16-QAM (k = 4) and every N >= 1, symbol i is computed
\* from exactly the bits i*k .. i*k+k-1 of the original sequence extended on the
\* right with zeros to the least multiple of k that is >= N: no bit is dropped,
\* reordered or shifted, and QPSK takes I from the first bit of a pair and Q from
\* the second.
C18_GroupsOfZeroExtendedBits ==
    (mwhich \in QpskMappers \cup Qam16Mappers) =>
        /\ Len(msyms) = CeilDiv(Len(mbits), MapperK)
        /\ \A g \in 1..Len(msyms) :
               msyms[g] = PointOfGroup(mwhich, ExpectedGroup(MapperK, g))

\* five bits went through the arithmetic 16-QAM mapping: the second symbol comes
\* from the fifth bit followed by three zeros
C18_Witness ==
    /\ mwhich = "arith16"
    /\ mbits = <<0, 1, 1, 0, 1>>
    /\ msyms = <<<<1, -1>>, <<-3, 1>>>>

\* str(b) of one bit
BitChar(b) == IF b = 0 THEN "0" ELSE "1"

\* the text of a bit pair as the diagrams write it
PairLabel(b) == BitChar(b[1]) \o BitChar(b[2])

\* the text of a group of 4 bits
GroupLabel(b) == BitChar(b[1]) \o BitChar(b[2]) \o BitChar(b[3]) \o BitChar(b[4])

\* the bits a 4-character label spells
LabelBits(s) == CHOOSE b \in Groups4 : GroupLabel(b) = s

\* enhanced_app, generate_professional_constellation_diagrams: qpsk_i, qpsk_q
\* (numerators of the 1/sqrt(2) coordinates) zipped with labels
EnhancedQpskConstellation ==
    {<<1, 1, "00">>, <<-1, 1, "01">>, <<-1, -1, "11">>, <<1, -1, "10">>}

\* the diagram drawn by the program whose QPSK mapper is under test
QpskDiagram(which) ==
    IF which = "server_qpsk" THEN ServerConstellationPoints("QPSK")
    ELSE EnhancedQpskConstellation

\* C24: the bit label drawn next to each QPSK constellation point agrees with
\* the symbol mapper: the point labelled b0b1 has the same I sign and Q sign as
\* the symbol signal generation produces for the pair (b0, b1).
C24_QpskLabelAgreesWithMapper ==
    (mwhich \in QpskMappers) =>
        \A g \in 1..Len(msyms) :
            \A p \in QpskDiagram(mwhich) :
                p[3] = PairLabel(ExpectedGroup(2, g)) =>
                    /\ Sgn(p[1]) = Sgn(msyms[g][1])
                    /\ Sgn(p[2]) = Sgn(msyms[g][2])

\* labels in natural binary order of the lattice index instead of Gray order
gray_mapping_binary(p) ==
    LET i == (p[1] + 3) \div 2
        q == (p[2] + 3) \div 2
    IN  GroupLabel(<<i \div 2, i % 2, q \div 2, q % 2>>)

\* enhanced_app, generate_professional_constellation_diagrams: gray_mapping
gray_mapping(p) ==
    CASE p = <<-3, -3>> -> "0000" [] p = <<-3, -1>> -> "0001"
      [] p = <<-3, 1>> -> "0011"  [] p = <<-3, 3>> -> "0010"
      [] p = <<-1, -3>> -> "0100" [] p = <<-1, -1>> -> "0101"
      [] p = <<-1, 1>> -> "0111"  [] p = <<-1, 3>> -> "0110"
      [] p = <<1, -3>> -> "1100"  [] p = <<1, -1>> -> "1101"
      [] p = <<1, 1>> -> "1111"   [] p = <<1, 3>> -> "1110"
      [] p = <<3, -3>> -> "1000"  [] p = <<3, -1>> -> "1001"
      [] p = <<3, 1>> -> "1011"   [] p = <<3, 3>> -> "1010"

\* C25: the two 16-QAM tables of enhanced_app are mutual inverses: for every
\* 4-bit group g, gray_mapping[gray_16qam[g]] is the bit string of g, and for
\* every lattice point p, gray_16qam of the bits of gray_mapping[p] is p.
C25_Qam16TablesMutualInverses ==
    (mwhich \in Qam16Mappers) =>
        /\ \A g \in 1..Len(msyms) :
               LET b == ExpectedGroup(4, g)
               IN  gray_mapping(gray_16qam(<<b[1], b[2], b[3], b[4]>>)) = GroupLabel(b)
        /\ \A g \in 1..Len(msyms) :
               LET b == LabelBits(gray_mapping(msyms[g]))
               IN  gray_16qam(<<b[1], b[2], b[3], b[4]>>) = msyms[g]

\* the gray_16qam lookup mapped 1001 0110 to (3, -1) and (-1, 3), the points
\* the diagram labels 1001 and 0110
C25_Witness ==
    /\ mwhich = "gray_16qam"
    /\ mbits = <<1, 0, 0, 1, 0, 1, 1, 0>>
    /\ msyms = <<<<3, -1>>, <<-1, 3>>>>
    /\ gray_mapping(msyms[1]) = "1001"
    /\ gray_mapping(msyms[2]) = "0110"

----------------------------------------------------------------------------
(* Properties of concurrent requests (checked under SpecConc) *)

\* thread t serves /generate_signals and has drawn its bits without failing
BitsDrawn(t) ==
    /\ thr[t].kind = "generate_signals"
    /\ thr[t].pc \in {"modulate", "save", "plot", "done"}
    /\ thr[t].error = ""

\* C16: when two /generate_signals requests are processed concurrently with their
\* statements interleaved, each request obtains exactly the bits and the noise
\* realization it would obtain if it ran alone (seed 42, bits from the start of the
\* stream, noise right after them): no interleaving lets the other request's seed
\* reset or draws change them.
C16_RngNotShared ==
    \A t \in Threads :
        BitsDrawn(t) =>
            LET alone == SeedRng(rng)
                n == Len(thr[t].bits)
            IN  /\ thr[t].bits = RandInt(alone, n)
                /\ (thr[t].noise.len > 0) =>
                       thr[t].noise = Randn(Advance(alone, n), thr[t].noise.scale,
                                            thr[t].noise.len)

\* C17: in flask_telecom_server, under any interleaving of two concurrent requests,
\* the plot and the result returned to a /generate_signals request are built from
\* the signal_df and the modulation the same request computed, never from values
\* the other request wrote to the shared telecom_lab object.
C17_PlotFromOwnData ==
    \A t \in Threads :
        (/\ app = "server"
         /\ thr[t].kind = "generate_signals"
         /\ thr[t].pc = "done"
         /\ thr[t].error = "")
        => /\ thr[t].plot.df = thr[t].df
           /\ thr[t].plot.title = thr[t].used
           /\ thr[t].result.modulation = thr[t].used

----------------------------------------------------------------------------
(* Properties of the custom_acronyms table (checked under SpecCustom) *)

\* the acronym a POST /api/tooltips/custom request asks to add
PostedAcronym(data) == StrV(Upper(Strip(GetOr(data.acronym, StrV("")).v)))

\* the request reaches the INSERT: a body with a non-empty acronym and definition
ReachesInsert(data) ==
    /\ data.body
    /\ GetOr(data.acronym, StrV("")).t = "str"
    /\ GetOr(data.definition, StrV("")).t = "str"
    /\ Upper(Strip(GetOr(data.acronym, StrV("")).v)) # ""
    /\ Strip(GetOr(data.definition, StrV("")).v) # ""

AcronymsOf(table) == {table[i].acronym : i \in DOMAIN table}

\* C26: after any sequence of POST /api/tooltips/custom requests and
\* import_acronyms runs the table custom_acronyms holds at most one row per
\* acronym string, and an attempt to add an acronym that already exists
\* (answered with 400 'Acronym already exists', or counted as skipped by the
\* importer) leaves the stored definition, category and priority of the existing
\* row unchanged.
C26_OneRowPerAcronymRowsKept ==
    /\ \A i, j \in DOMAIN custom : custom[i].acronym = custom[j].acronym => i = j
    /\ (cresp.op # "none") =>
          \A i \in DOMAIN cresp.before :
              i \in DOMAIN custom /\ custom[i] = cresp.before[i]
    /\ (/\ cresp.op = "post_custom"
        /\ ReachesInsert(cresp.req)
        /\ PostedAcronym(cresp.req) \in AcronymsOf(cresp.before)) =>
          /\ cresp.resp.status = 400
          /\ cresp.resp.error = "Acronym already exists"
          /\ custom = cresp.before
    /\ (cresp.op = "import" /\ cresp.req.kind = "json" /\ cresp.resp.success) =>
          /\ cresp.resp.imported = Len(custom) - Len(cresp.before)
          /\ cresp.resp.skipped >=
                Cardinality({i \in DOMAIN cresp.req.entries :
                                StrV(cresp.req.entries[i][1]) \in AcronymsOf(cresp.before)})

\* 5G is stored with the definition "Other" an import gave it; a POST of 5G with
\* another definition has just been answered with 400 'Acronym already exists'
C26_Witness ==
    /\ cresp.op = "post_custom"
    /\ cresp.resp.status = 400
    /\ cresp.resp.error = "Acronym already exists"
    /\ cresp.req.acronym = StrV("5G")
    /\ cresp.req.definition = StrV(" Fifth Generation ")
    /\ \E i \in DOMAIN custom :
          /\ custom[i].acronym = StrV("5G")
          /\ custom[i].definition = StrV("Other")
          /\ custom[i].category = StrV("Imported")

----------------------------------------------------------------------------
(* Properties of the acronym lookups (checked under SpecLookup) *)

\* the database the running application loads
LoadedAcronymItems == IF app = "v2" THEN V2AcronymItems ELSE TooltipsAcronymItems

\* C27: every acronym that is a key of the database returned by load_acronyms can
\* be retrieved through GET /api/acronyms/<acronym> when requested by its exact
\* key: the response is success = true with that key's definition, keys with
\* lower-case letters such as eMBB, mmWave, IoT and QoS included.
C27_ExactKeyRetrievable ==
    (tresp.op = "get_acronym" /\ tresp.req \in DictKeys(LoadedAcronymItems)) =>
        /\ tresp.resp.success
        /\ tresp.resp.definition = DictGet(LoadedAcronymItems, tresp.req)

\* C28: for every acronym in the database, the related list returned by
\* GET /api/tooltips/related/<acronym> never contains the queried acronym itself
\* and never contains the same acronym twice, even when an acronym is related
\* both by category and by semantic relation.
C28_RelatedWithoutSelfOrDuplicates ==
    (tresp.op = "related" /\ tresp.req \in DictKeys(V2AcronymItems)) =>
        /\ tresp.resp.success
        /\ \A i \in DOMAIN tresp.resp.related :
               tresp.resp.related[i].acronym # tresp.req
        /\ \A i, j \in DOMAIN tresp.resp.related :
               tresp.resp.related[i].acronym = tresp.resp.related[j].acronym => i = j

\* query is a substring of the lower-cased acronym or of its lower-cased definition
QueryMatches(query, acronym) ==
    \/ IsIn(query, V2Lowered[acronym].acronym)
    \/ IsIn(query, V2Lowered[acronym].definition)

\* the answer r lists results in non-increasing score order, at most max_results
\* of them, each with a score in 1..100, and they are drawn from exactly the
\* acronyms that match the query: every result matches, none is listed twice, and
\* results are missing only when max_results cut them off
SearchResultsFor(query, max_results, r) ==
    /\ r.success
    /\ \A i \in 1..(Len(r.results) - 1) : r.results[i].score >= r.results[i + 1].score
    /\ Len(r.results) <= max_results
    /\ \A i \in DOMAIN r.results : r.results[i].score \in 1..100
    /\ \A i \in DOMAIN r.results : QueryMatches(query, r.results[i].acronym)
    /\ \A i, j \in DOMAIN r.results :
           r.results[i].acronym = r.results[j].acronym => i = j
    /\ Len(r.results) =
           Min(max_results,
               Cardinality({a \in DictKeys(V2AcronymItems) : QueryMatches(query, a)}))

\* C29: for every query of at least 2 characters and every max_results >= 0,
\* POST /api/tooltips/search returns results in non-increasing score order, at
\* most max_results of them, each with a score between 1 and 100, and an acronym
\* is a candidate exactly when the lower-cased query is a substring of the
\* lower-cased acronym or of its lower-cased definition.
C29_SearchResultsOfQuery ==
    (/\ tresp.op = "search"
     /\ tresp.req.body
     /\ Len(tresp.req.query) >= 2
     /\ tresp.req.max_results >= 0) =>
        SearchResultsFor(Lower(tresp.req.query), tresp.req.max_results, tresp.resp)

\* C29, amended: the same for every query that has at least 2 characters once
\* leading and trailing white space is removed, the substring test being made
\* with that stripped, lower-cased query.
C29_SearchResultsOfStrippedQuery ==
    (/\ tresp.op = "search"
     /\ tresp.req.body
     /\ Len(Strip(tresp.req.query)) >= 2
     /\ tresp.req.max_results >= 0) =>
        SearchResultsFor(Lower(Strip(tresp.req.query)), tresp.req.max_results,
                         tresp.resp)

\* the search for " QAM " with max_results 3 answered QAM (100), 16-QAM (80) and
\* 64-QAM (80), leaving out two more matches
C29_Witness ==
    /\ tresp.op = "search"
    /\ tresp.req.query = " QAM "
    /\ tresp.req.max_results = 3
    /\ tresp.resp.query = "qam"
    /\ Len(tresp.resp.results) = 3
    /\ tresp.resp.results[1].acronym = "QAM" /\ tresp.resp.results[1].score = 100
    /\ tresp.resp.results[2].acronym = "16-QAM" /\ tresp.resp.results[2].score = 80
    /\ tresp.resp.results[3].acronym = "64-QAM"
    /\ searchLog = <<"qam">>

----------------------------------------------------------------------------
(* Properties of fix_topology_animations (checked under SpecFix) *)

\* C30: fix_topology_animations is idempotent: run any number of times on an
\* index.html that contains a closing body tag it leaves the file with the
\* content it had after the first run, and a run that finds the script reference
\* already present returns True without writing the file.
C30_FixIdempotent ==
    [][(fix'.runs = fix.runs + 1) =>
          /\ (fix.runs >= 1 /\ IsIn("</body>", fix.initial)) => files'.html = fix.first
          /\ (/\ files.html_exists /\ files.js_exists
              /\ IsIn(SCRIPT_PATH, files.html)) =>
                 (fix'.result /\ ~fix'.wrote /\ files' = files)]_vars

\* the first run put the script tag in front of </body>; the third run found
\* the reference and left the file as the first run wrote it
C30_Witness ==
    /\ fix.runs = 3
    /\ fix.initial = "<body><p>Mesh</p></body>"
    /\ fix.first = "<body><p>Mesh</p>" \o script_tag \o "</body>"
    /\ files.html = fix.first
    /\ fix.found /\ fix.result /\ ~fix.wrote

====
